---------------------------- MODULE Spec2Model ----------------------------
(***************************************************************************)
(* A model of icris-ocr: the batch layer (process_dir), the construction   *)
(* of an AnnualReturn from its page images, box detection with skew        *)
(* correction (detect_boxes / process_image) and the segmented-cell        *)
(* splitter (ocr_segmented_box), the string cleaners of                    *)
(* string_processing, the ordering of page images and of boxes, and the    *)
(* threads of dir_categorize.                                              *)
(*                                                                         *)
(* A string is a sequence of one-character strings.                        *)
(*                                                                         *)
(* Angles are integers in hundredths of a degree (0.15 degrees is 15).     *)
(* A box list is modelled by its length: only indexing, slicing and        *)
(* unpacking of the list decide whether a page constructor raises.         *)
(***************************************************************************)
EXTENDS Integers, Sequences, FiniteSets, TLC

VARIABLES
    \* ---- process_dir ----
    parallel,        \* the parallel argument
    doc_type,        \* the doc_type argument
    num_doc,         \* len(doc_list); the documents are 1..num_doc
    mainpc,          \* position of the main process in process_dir
    mi,              \* loop index of the main process
    task_queue, done_queue, failed_queue,
    doc_data_list, failed_list,
    wpc,             \* position of each worker process
    wdoc,            \* the doc_dir a worker holds (0: none)
    taken,           \* ghost: the workers that read each document from task_queue
    stops,           \* ghost: how many 'STOP' each worker has read
    outcome,         \* ghost: what process_doc_dir did for each document
    page_raised,     \* ghost: a page constructor raised for the document
    ret,             \* what process_dir returned
    \* ---- AnnualReturn / page constructors ----
    ar_mode,         \* "doc": AnnualReturn(doc_dir); "page": one page constructor alone
    ar_pc,
    ar_npages,       \* number of .jpg files in doc_dir
    ar_pos,          \* position in PageSeq of the page under construction
    ar_in,           \* what the images of the page under construction yield
    ar_pages,        \* the results of the page constructors run so far
    ar_result,       \* the result of the construction
    \* ---- detect_boxes ----
    db_flags,        \* ghost: the arguments of the outermost detect_boxes call
    db_stack,        \* call stack of detect_boxes, innermost frame last
    db_angles,       \* the angle calculate_angle would estimate at each depth
    db_runs,         \* ghost: line detections run
    db_estimates,    \* ghost: calls of calculate_angle
    db_rotations,    \* ghost: calls of rotate_image
    db_result,       \* what the outermost detect_boxes call did
    \* ---- ocr_segmented_box ----
    seg_pc,
    seg_length,      \* width of the crop
    seg_contours,    \* number of contours found
    seg_left_x,      \* x-coordinate of the leftmost contour
    seg_cells,       \* the cells of box_generator, as <<lo, hi>> column ranges
    seg_result,
    seg_type,        \* data_type
    seg_single,      \* single
    seg_ocr,         \* what image_to_string reads in the cells
    seg_list,        \* img_string_list
    seg_string,      \* the string returned
    \* ---- string_processing, ocr_box and the fields built from them ----
    txt_pc,
    txt_fn,          \* the function applied
    txt_type,        \* its data_type argument
    txt_n,           \* its nSpaces argument
    txt_in,          \* its string argument
    txt_out,         \* what it returned
    \* ---- the page images of a document directory ----
    pp_pc,
    pp_listing,      \* os.listdir(doc_dir), in the order the system gives
    pp_paths,        \* self.page_paths
    pp_pages,        \* the page images bound to the five pages, or the raise
    \* ---- dir_categorize(parallel=True) and its threads ----
    cat_main,        \* position of the main thread
    cat_queue,       \* task_queue
    cat_cwd,         \* the working directory of the process: "base" or "dir"
    cat_pc,          \* position of each thread
    cat_doc,         \* the document directory a thread holds (0: none)
    cat_saved,       \* current_directory of the categorize call of a thread
    cat_loc,         \* where each document directory is: "source" or "dest"
    cat_made,        \* the directories in which the folders of the type exist
    cat_moves,       \* ghost: successful os.rename calls on each document
    cat_failed,      \* ghost: how categorize failed on each document
    cat_overlap,     \* ghost: a task was taken while a categorize call was running
    \* ---- the box list of a page ----
    bx_pc,           \* position in the page constructor
    bx_page,         \* the page: 1, 2, 3, 4 or 5 (PageEight)
    bx_contours,     \* bounding rectangles in the order findContours returned them
    bx_info,         \* boxes_info, the list get_boxes_info returns
    bx_sorted,       \* sorted(boxes_info, key = area, reverse = True)
    bx_top,          \* boxes_of_interest
    \* ---- calculate_angle ----
    ang_pc,          \* "call" before calculate_angle, "returned" after
    ang_lines,       \* what HoughLinesP returned: None or the angles of the segments
    ang_out,         \* the return: raised or not, and skew_angle as num / den
    \* ---- dir_convert(parallel=True) ----
    cv_main,         \* position of the main process
    cv_queue,        \* task_queue
    cv_unsuccessful, \* unsuccessful_queue
    cv_pc,           \* position of each worker process
    cv_file,         \* the file a worker holds (0: none)
    cv_raises,       \* the files for which convert_pdf raises
    cv_converted,    \* the files converted
    cv_list,         \* unsuccessful_list
    cv_printed       \* the files listed as not converted, or "all" converted

batch_vars == <<parallel, doc_type, num_doc, mainpc, mi, task_queue, done_queue,
                failed_queue, doc_data_list, failed_list, wpc, wdoc, taken, stops,
                outcome, page_raised, ret>>
ar_vars == <<ar_mode, ar_pc, ar_npages, ar_pos, ar_in, ar_pages, ar_result>>
db_vars == <<db_flags, db_stack, db_angles, db_runs, db_estimates, db_rotations, db_result>>
seg_vars == <<seg_pc, seg_length, seg_contours, seg_left_x, seg_cells, seg_result,
              seg_type, seg_single, seg_ocr, seg_list, seg_string>>
txt_vars == <<txt_pc, txt_fn, txt_type, txt_n, txt_in, txt_out>>
pp_vars == <<pp_pc, pp_listing, pp_paths, pp_pages>>
cat_vars == <<cat_main, cat_queue, cat_cwd, cat_pc, cat_doc, cat_saved, cat_loc,
              cat_made, cat_moves, cat_failed, cat_overlap>>
bx_vars == <<bx_pc, bx_page, bx_contours, bx_info, bx_sorted, bx_top>>
ang_vars == <<ang_pc, ang_lines, ang_out>>
cv_vars == <<cv_main, cv_queue, cv_unsuccessful, cv_pc, cv_file, cv_raises, cv_converted,
             cv_list, cv_printed>>
late_vars == <<ang_vars, cv_vars>>
aux_vars == <<txt_vars, pp_vars, cat_vars, bx_vars, late_vars>>
vars == <<batch_vars, ar_vars, db_vars, seg_vars, aux_vars>>

----------------------------------------------------------------------------
(* Bounds of the model *)

MaxDocs == 3             \* document directories in dir
NUMBER_OF_PROCESSES == 2 \* mp.cpu_count()
MaxPages == 8            \* .jpg files in a document directory
MaxAngle == 17           \* largest estimated skew, in hundredths of a degree
MaxDepth == 3            \* nesting of detect_boxes calls the model follows
MaxBoxes == 26           \* boxes detected on a page
MaxLines == 6            \* grid lines get_line_coordinates finds in a table
MaxWidth == 141          \* width of a segmented crop
MaxContours == 8         \* contours found in a segmented crop
MaxText == 3             \* characters of a string given to a numeric cleaner
MaxDigits == 9           \* digits after the country code of a contact number
MaxHkid == 8             \* characters of a string given to clean_hkid
MaxWords == 5            \* characters of a string given to clean_alphabet
MaxFiles == 11           \* page images page_1.jpg, page_2.jpg, ... in a directory
MaxCatDocs == 2          \* document directories given to dir_categorize
NUMBER_OF_THREADS == 2   \* mp.cpu_count() in dir_categorize
MaxRects == 3            \* contours found on a page image
MaxRectY == 2            \* vertical positions 0..MaxRectY of a bounding rectangle
MaxSegments == 3         \* line segments HoughLinesP finds
MaxPieces == 5           \* words and separators of a text given to separate_text
MaxPdfs == 3             \* files in the directory given to dir_convert
CONVERT_PROCESSES == 2   \* mp.cpu_count() // 2 in dir_convert

Min(a, b) == IF a < b THEN a ELSE b
Max(a, b) == IF a < b THEN b ELSE a

----------------------------------------------------------------------------
(* Python lists, by length *)

\* lst[i] raises IndexError unless -len <= i < len
Idx(len, i) == IF i >= 0 THEN i < len ELSE -i <= len

\* len(lst[a:b]) for 0 <= a <= b
SliceLen(len, a, b) == Max(0, Min(b, len) - Min(a, len))

\* len(lst[a:])
TailLen(len, a) == len - Min(a, len)

\* a call with keyword arguments kwargs of a function whose parameters are params
CallAccepts(params, kwargs) == kwargs \subseteq params


----------------------------------------------------------------------------
(* detect_boxes: a call stack of frames.  A frame holds the arguments and  *)
(* the locals skew_angle and boxes_thinned, either of which may be unbound  *)
(* (skew_bound, thinned_bound); thinned_rot says how often the image was   *)
(* rotated whose mask boxes_thinned holds.                                 *)

Tolerance == 15   \* 0.15 degrees

\* the skew angles the model draws: the tolerance and its neighbours, 0, the extremes
Angles == {a \in -MaxAngle..MaxAngle :
              \/ a = 0
              \/ a \in {-MaxAngle, MaxAngle}
              \/ a \in (Tolerance - 1)..(Tolerance + 1)
              \/ -a \in (Tolerance - 1)..(Tolerance + 1)}

\* the skew a rotated image may still have
ResidualAngles == {0, MaxAngle}

AngleVectors == {v \in [1..MaxDepth -> Angles] :
                    \A d \in 2..MaxDepth : v[d] \in ResidualAngles}

ThinAlignments == {"None", "vertical", "horizontal"}

Flags == [align : BOOLEAN, thin_lines : BOOLEAN, thin_alignment : ThinAlignments,
          skel : BOOLEAN, canny : BOOLEAN]

\* a fresh frame of detect_boxes on an image that was rotated rot times
Frame(flags, rot) ==
    [align |-> flags.align, thin_lines |-> flags.thin_lines,
     thin_alignment |-> flags.thin_alignment, skel |-> flags.skel,
     canny |-> flags.canny, rot |-> rot, pc |-> "enter",
     skew_bound |-> FALSE, skew_angle |-> 0,
     thinned_bound |-> FALSE, thinned_rot |-> 0]

\* the assertion on thin_alignment
ThinAssertion(f) ==
    f.thin_lines => f.thin_alignment \in {"vertical", "horizontal"}

\* skew_angle > 0.15 or skew_angle < -0.15
OutOfTolerance(angle) == angle > Tolerance \/ angle < -Tolerance

\* RecursiveAlign with align=True passed on to the recursive call
RecursiveAlignKept(f) == TRUE

\* the align argument of the recursive call: the local align, which line 189
\* has set to False in f
RecursiveAlign(f) == f.align

\* the arguments of the recursive call
RecursiveFlags(f) ==
    [align |-> RecursiveAlign(f), thin_lines |-> f.thin_lines,
     thin_alignment |-> f.thin_alignment, skel |-> f.skel, canny |-> f.canny]

\* the tail of detect_boxes: canny, skel, then the try/except around the return
Finish(f) ==
    LET skel1 == IF f.canny THEN FALSE ELSE f.skel
        bound == f.canny \/ skel1 \/ f.thinned_bound
        rot == IF f.canny \/ skel1 THEN f.rot ELSE f.thinned_rot
    IN  IF ~bound
        THEN [kind |-> "raise", exc |-> "UnboundLocalError",
              skew_angle |-> 0, mask_rot |-> 0]
        ELSE IF ~f.skew_bound
             THEN [kind |-> "mask", exc |-> "none",
                   skew_angle |-> 0, mask_rot |-> rot]
             ELSE [kind |-> "pair", exc |-> "none",
                   skew_angle |-> f.skew_angle, mask_rot |-> rot]

NoResult == [kind |-> "none", exc |-> "none", skew_angle |-> 0, mask_rot |-> 0]

Top == db_stack[Len(db_stack)]
SetTop(f) == [db_stack EXCEPT ![Len(db_stack)] = f]
Pop == SubSeq(db_stack, 1, Len(db_stack) - 1)

\* lines 164-186: the assertion, then the line detection on processed_inv
DbDetect ==
    /\ db_stack # <<>>
    /\ Top.pc = "enter"
    /\ IF ThinAssertion(Top)
       THEN /\ db_stack' = SetTop([Top EXCEPT !.pc = "align"])
            /\ db_runs' = db_runs + 1
            /\ UNCHANGED db_result
       ELSE /\ db_stack' = <<>>
            /\ db_result' = [kind |-> "raise", exc |-> "AssertionError",
                             skew_angle |-> 0, mask_rot |-> 0]
            /\ UNCHANGED db_runs
    /\ UNCHANGED <<db_flags, db_angles, db_estimates, db_rotations>>
    /\ UNCHANGED <<batch_vars, ar_vars, seg_vars, aux_vars>>

\* lines 188-195: the estimate, and the rotation with the recursive call
DbAlign ==
    /\ db_stack # <<>>
    /\ Top.pc = "align"
    /\ IF Top.align
       THEN LET angle == db_angles[Len(db_stack)]
                f == [Top EXCEPT !.align = FALSE, !.skew_bound = TRUE,
                                 !.skew_angle = angle]
            IN  /\ db_estimates' = db_estimates + 1
                /\ IF OutOfTolerance(angle)
                   THEN /\ Len(db_stack) < MaxDepth
                        /\ db_rotations' = db_rotations + 1
                        /\ db_stack' = Append(SetTop([f EXCEPT !.pc = "call"]),
                                              Frame(RecursiveFlags(f), f.rot + 1))
                   ELSE /\ db_stack' = SetTop([f EXCEPT !.pc = "finish"])
                        /\ UNCHANGED db_rotations
       ELSE /\ db_stack' = SetTop([Top EXCEPT !.pc = "finish"])
            /\ UNCHANGED <<db_estimates, db_rotations>>
    /\ UNCHANGED <<db_flags, db_angles, db_runs, db_result>>
    /\ UNCHANGED <<batch_vars, ar_vars, seg_vars, aux_vars>>

\* lines 193-211: a frame returns or raises; its caller binds boxes_thinned to
\* what it returned and clears skel and canny
DbReturn ==
    /\ db_stack # <<>>
    /\ Top.pc = "finish"
    /\ LET r == Finish(Top)
       IN  IF r.kind = "raise"
           THEN /\ db_stack' = <<>>
                /\ db_result' = r
           ELSE IF Len(db_stack) = 1
                THEN /\ db_stack' = <<>>
                     /\ db_result' = r
                ELSE LET caller == db_stack[Len(db_stack) - 1]
                     IN  /\ db_stack' =
                                [Pop EXCEPT ![Len(db_stack) - 1] =
                                    [caller EXCEPT !.thinned_bound = TRUE,
                                                   !.thinned_rot = r.mask_rot,
                                                   !.skel = FALSE, !.canny = FALSE,
                                                   !.pc = "finish"]]
                         /\ UNCHANGED db_result
    /\ UNCHANGED <<db_flags, db_angles, db_runs, db_estimates, db_rotations>>
    /\ UNCHANGED <<batch_vars, ar_vars, seg_vars, aux_vars>>

DbStep == DbDetect \/ DbAlign \/ DbReturn

NoFlags == [align |-> FALSE, thin_lines |-> FALSE, thin_alignment |-> "None",
            skel |-> FALSE, canny |-> FALSE]

DbIdle ==
    /\ db_flags = NoFlags
    /\ db_stack = <<>>
    /\ db_angles = [d \in 1..MaxDepth |-> 0]
    /\ db_runs = 0 /\ db_estimates = 0 /\ db_rotations = 0
    /\ db_result = NoResult

\* a call of detect_boxes(processed_inv, **flags) on an image with the given skews
DbCall(flags, angles) ==
    /\ db_flags' = flags
    /\ db_stack' = <<Frame(flags, 0)>>
    /\ db_angles' = angles
    /\ db_runs' = 0 /\ db_estimates' = 0 /\ db_rotations' = 0
    /\ db_result' = NoResult


----------------------------------------------------------------------------
(* The page constructors of AnnualReturn *)

\* the pages AnnualReturn constructs, in order, and the index into page_paths of each
PageSeq == <<1, 2, 3, 4, 8>>
Positions == 1..Len(PageSeq)
PagePathIndex(k) == PageSeq[k] - 1

PageName(k) ==
    CASE k = 1 -> "page_1" [] k = 2 -> "page_2" [] k = 3 -> "page_3"
      [] k = 4 -> "page_4" [] k = 5 -> "page_8"

\* the keys of each page's page_data
Fields(k) ==
    CASE k = 1 -> {"company_name", "company_address", "company_number",
                   "date_of_return", "presentors_name", "presentors_address",
                   "presentors_telephone", "presentors_fax", "presentors_email"}
      [] k = 2 -> {"company_email", "total_shares", "total_amount", "total_paid_up"}
      [] k = 3 -> {"company_secretary", "correspondance_address", "secretarys_hkid",
                   "corporate_company_secretary",
                   "corporate_company_secretary_address",
                   "corporate_company_secretary_email",
                   "corporate_company_secretary_crNo"}
      [] k = 4 -> {"directors_name", "directors_address", "directors_email",
                   "directors_hkid"}
      [] k = 5 -> {"shareholders_names", "shareholders_addresses",
                   "shareholders_stake"}

AllFields == UNION {Fields(k) : k \in Positions}

\* the arguments each page constructor passes to process_image (align is left True)
PageFlags(k) ==
    CASE k = 1 -> [align |-> TRUE, thin_lines |-> TRUE, thin_alignment |-> "vertical",
                   skel |-> TRUE, canny |-> FALSE]
      [] k = 2 -> [align |-> TRUE, thin_lines |-> FALSE, thin_alignment |-> "None",
                   skel |-> FALSE, canny |-> TRUE]
      [] k = 3 -> [align |-> TRUE, thin_lines |-> TRUE, thin_alignment |-> "horizontal",
                   skel |-> TRUE, canny |-> FALSE]
      [] k = 4 -> [align |-> TRUE, thin_lines |-> TRUE, thin_alignment |-> "horizontal",
                   skel |-> TRUE, canny |-> FALSE]
      [] k = 5 -> [align |-> TRUE, thin_lines |-> FALSE, thin_alignment |-> "None",
                   skel |-> FALSE, canny |-> TRUE]

\* the parameters of separate_text, and the keywords the pages call it with
SeparateTextParams == {"string", "nSpaces", "data_type", "numbers", "save"}
SeparateTextKeywords(k) ==
    CASE k = 2 -> {"nSpaces", "type"}
      [] k = 5 -> {"nSpaces", "type"}
      [] OTHER -> {}

\* how many of the largest boxes each page keeps: sorted(...)[:8], [:5], [:25],
\* [:18], and sorted(...)[0] for PageEight
TopK(k) ==
    CASE k = 1 -> 8 [] k = 2 -> 5 [] k = 3 -> 25 [] k = 4 -> 18 [] k = 5 -> 1

Raise(exc, site) == [exc |-> exc, site |-> site]
NoRaise == Raise("none", "none")

\* PageOne.__init__ from the box list on: n boxes detected
PageOneBody(n) ==
    LET boi == Min(n, TopK(1))
        large == SliceLen(boi, 1, 4)
        small == TailLen(boi, 4)
    IN  CASE ~Idx(boi, 0) -> Raise("IndexError", "boxes")
          [] Idx(boi, 0) /\ ~(Idx(large, 0) /\ Idx(large, 2)) ->
                 Raise("IndexError", "boxes")
          [] Idx(boi, 0) /\ Idx(large, 0) /\ Idx(large, 2)
                 /\ SliceLen(small, 0, 2) # 2 -> Raise("ValueError", "boxes")
          [] OTHER -> NoRaise

\* PageTwo.__init__ from the box list on: nx vertical and ny horizontal lines
\* are found in the table by get_line_coordinates(table_gray, 9, 6)
PageTwoBody(n, nx, ny) ==
    LET boi == Min(n, TopK(2))
        small == TailLen(boi, 1)
        x_list == Min(nx, 9)
        y_list == Min(ny, 6)
    IN  IF ~Idx(boi, 0) THEN Raise("IndexError", "boxes")
        ELSE IF ~Idx(y_list, -1) THEN Raise("IndexError", "grid")
        ELSE IF ~Idx(small, 1) THEN Raise("IndexError", "boxes")
        ELSE IF \E i \in 2..5 : ~Idx(x_list, i) THEN Raise("IndexError", "grid")
        ELSE IF ~CallAccepts(SeparateTextParams, SeparateTextKeywords(2))
             THEN Raise("TypeError", "call")
        ELSE NoRaise

\* PageThreeBody with an early return on an empty box list
PageThreeBodyGuarded(n) ==
    LET boi == Min(n, TopK(3))
        hkid == SliceLen(boi, 13, 15)
    IN  IF n = 0 THEN NoRaise
        ELSE IF \E i \in {12, 18, 23, 24} : ~Idx(boi, i) THEN Raise("IndexError", "boxes")
        ELSE IF ~(Idx(hkid, 0) /\ Idx(hkid, 1)) THEN Raise("IndexError", "boxes")
        ELSE NoRaise

\* PageThree.__init__ from the box list on
PageThreeBody(n) ==
    LET boi == Min(n, TopK(3))
        hkid == SliceLen(boi, 13, 15)
    IN  IF \E i \in {12, 18, 23, 24} : ~Idx(boi, i) THEN Raise("IndexError", "boxes")
        ELSE IF ~(Idx(hkid, 0) /\ Idx(hkid, 1)) THEN Raise("IndexError", "boxes")
        ELSE NoRaise

\* PageFourBody binding a field from the last of the eighteen boxes it keeps
PageFourBodyLast(n) ==
    LET boi == Min(n, TopK(4))
        hkid == SliceLen(boi, 14, 16)
    IN  IF ~Idx(boi, 13) \/ ~Idx(boi, 17) THEN Raise("IndexError", "boxes")
        ELSE IF ~(Idx(hkid, 0) /\ Idx(hkid, 1)) THEN Raise("IndexError", "boxes")
        ELSE NoRaise

\* PageFour.__init__ from the box list on
PageFourBody(n) ==
    LET boi == Min(n, TopK(4))
        hkid == SliceLen(boi, 14, 16)
    IN  IF ~Idx(boi, 13) THEN Raise("IndexError", "boxes")
        ELSE IF ~(Idx(hkid, 0) /\ Idx(hkid, 1)) THEN Raise("IndexError", "boxes")
        ELSE NoRaise

\* PageEight.__init__ from the box list on: get_line_coordinates(table_gray, 7, 5)
PageEightBody(n, nx, ny) ==
    LET x_list == Min(nx, 7)
        y_list == Min(ny, 5)
    IN  IF ~Idx(n, 0) THEN Raise("IndexError", "boxes")
        ELSE IF ~Idx(y_list, -2) THEN Raise("IndexError", "grid")
        ELSE IF \E i \in 0..3 : ~Idx(x_list, i) THEN Raise("IndexError", "grid")
        ELSE IF ~CallAccepts(SeparateTextParams, SeparateTextKeywords(5))
             THEN Raise("TypeError", "call")
        ELSE NoRaise

PageBody(k, n, nx, ny) ==
    CASE k = 1 -> PageOneBody(n)
      [] k = 2 -> PageTwoBody(n, nx, ny)
      [] k = 3 -> PageThreeBody(n)
      [] k = 4 -> PageFourBody(n)
      [] k = 5 -> PageEightBody(n, nx, ny)

\* the page_data property: one key, the page's name, holding its fields
PageData(k) == [o \in {PageName(k)} |-> [f \in Fields(k) |-> "str"]]
NoData == [o \in {} |-> [f \in {} |-> "str"]]

\* PageRotates with the bounds of the tolerance counted as skewed
PageRotatesInclusive(angle) == angle >= Tolerance \/ angle <= -Tolerance

\* the page's own test for rotating the image it crops from
PageRotates(angle) == angle > Tolerance \/ angle < -Tolerance

\* process_image: skew_angle, boxes_thinned = detect_boxes(...) unpacks a pair; a
\* mask alone (a 2-D array of more than two rows) does not unpack into two names
ProcessImage(dr) ==
    CASE dr.kind = "pair" -> [raised |-> FALSE, exc |-> "none",
                              skew_angle |-> dr.skew_angle, mask_rot |-> dr.mask_rot]
      [] dr.kind = "mask" -> [raised |-> TRUE, exc |-> "ValueError",
                              skew_angle |-> 0, mask_rot |-> dr.mask_rot]
      [] OTHER -> [raised |-> TRUE, exc |-> dr.exc, skew_angle |-> 0, mask_rot |-> 0]

\* a page constructor: process_image gave pi (dr: what detect_boxes did), the
\* contours gave n boxes, the table nx and ny lines
PageInit(k, dr, n, nx, ny) ==
    LET pi == ProcessImage(dr)
        body == PageBody(k, n, nx, ny)
    IN  IF pi.raised
        THEN [raised |-> TRUE, exc |-> pi.exc, site |-> "process_image",
              rotated |-> FALSE, page_data |-> NoData]
        ELSE IF body.exc # "none"
        THEN [raised |-> TRUE, exc |-> body.exc, site |-> body.site,
              rotated |-> PageRotates(pi.skew_angle), page_data |-> NoData]
        ELSE [raised |-> FALSE, exc |-> "none", site |-> "none",
              rotated |-> PageRotates(pi.skew_angle), page_data |-> PageData(k)]

----------------------------------------------------------------------------
(* AnnualReturn.__init__ and get_doc_data *)

\* dict.update
DictUpdate(d, e) ==
    [key \in DOMAIN d \cup DOMAIN e |-> IF key \in DOMAIN e THEN e[key] ELSE d[key]]

RECURSIVE UpdateAll(_, _)
UpdateAll(d, datas) ==
    IF datas = <<>> THEN d
    ELSE UpdateAll(DictUpdate(d, Head(datas)), Tail(datas))

\* get_doc_data: the pages' page_data merged, then one column (outer, inner)
\* holding the one-row list [value]
get_doc_data(datas) ==
    LET data_dict == UpdateAll(NoData, datas)
        keys == {c \in (DOMAIN data_dict) \X AllFields : c[2] \in DOMAIN data_dict[c[1]]}
    IN  [c \in keys |-> <<data_dict[c[1]][c[2]]>>]

NoDocData == [c \in {} |-> <<>>]

\* the result of a page constructor that has not run
NotBuilt == [raised |-> FALSE, exc |-> "none", site |-> "none",
             rotated |-> FALSE, page_data |-> NoData]

\* AnnualReturnInit with a page constructor's exception swallowed: the pages
\* that raise are left out of doc_data
AnnualReturnInitPartial(npages, res) ==
    LET missing == {k \in Positions : ~Idx(npages, PagePathIndex(k))}
    IN  IF missing = {}
        THEN [raised |-> FALSE, exc |-> "none", at |-> 0,
              doc_data |-> get_doc_data([k \in Positions |-> res[k].page_data])]
        ELSE [raised |-> TRUE, exc |-> "IndexError",
              at |-> CHOOSE j \in missing : \A i \in missing : j <= i,
              doc_data |-> NoDocData]

\* AnnualReturn.__init__ over npages page images, res[k] being what the
\* constructor of the page at position k does: the first page path that is
\* missing or the first constructor that raises ends the construction
AnnualReturnInit(npages, res) ==
    LET bad == {k \in Positions : ~Idx(npages, PagePathIndex(k)) \/ res[k].raised}
    IN  IF bad = {}
        THEN [raised |-> FALSE, exc |-> "none", at |-> 0,
              doc_data |-> get_doc_data([k \in Positions |-> res[k].page_data])]
        ELSE LET k == CHOOSE j \in bad : \A i \in bad : j <= i
             IN  [raised |-> TRUE,
                  exc |-> IF ~Idx(npages, PagePathIndex(k)) THEN "IndexError"
                          ELSE res[k].exc,
                  at |-> k, doc_data |-> NoDocData]

NoARResult == [raised |-> FALSE, exc |-> "none", at |-> 0, doc_data |-> NoDocData]


----------------------------------------------------------------------------
(* The construction of an AnnualReturn, or of one page alone, step by step *)

NoInput == [n |-> 0, nx |-> 0, ny |-> 0]

\* the table lines drawn for a page: only PageTwo and PageEight probe a table
GridCounts(k) == IF k \in {2, 5} THEN 0..MaxLines ELSE {0}

\* the box counts drawn for a page: from none to more than it looks at
BoxCounts(k) == 0..Min(MaxBoxes, TopK(k) + 1)

\* the skews drawn for a page: a rotated image keeps the largest skew
PageAngleVectors == {v \in AngleVectors : \A d \in 2..MaxDepth : v[d] = MaxAngle}

ArIdle ==
    /\ ar_mode = "idle" /\ ar_pc = "idle" /\ ar_npages = 0 /\ ar_pos = 1
    /\ ar_in = NoInput
    /\ ar_pages = [k \in Positions |-> NotBuilt]
    /\ ar_result = NoARResult

\* self.page_paths[i] of a page image that is not there
ARMissingPage ==
    /\ ar_pc = "next"
    /\ ar_mode = "doc"
    /\ ~Idx(ar_npages, PagePathIndex(ar_pos))
    /\ ar_result' = AnnualReturnInit(ar_npages, ar_pages)
    /\ ar_pc' = "done"
    /\ UNCHANGED <<ar_mode, ar_npages, ar_pos, ar_in, ar_pages>>
    /\ UNCHANGED <<db_vars, batch_vars, seg_vars, aux_vars>>

\* a page constructor starts: cv2.imread, then process_image calls detect_boxes
PageStart ==
    /\ ar_pc = "next"
    /\ ar_mode = "doc" => Idx(ar_npages, PagePathIndex(ar_pos))
    /\ \E angles \in PageAngleVectors : DbCall(PageFlags(ar_pos), angles)
    /\ ar_pc' = "detect"
    /\ UNCHANGED <<ar_mode, ar_npages, ar_pos, ar_in, ar_pages, ar_result>>
    /\ UNCHANGED <<batch_vars, seg_vars, aux_vars>>

\* detect_boxes is over: get_boxes_info, then the rest of the constructor
PageBind ==
    /\ ar_pc = "detect"
    /\ db_stack = <<>>
    /\ db_result.kind # "none"
    /\ \E n \in BoxCounts(ar_pos), nx \in GridCounts(ar_pos), ny \in GridCounts(ar_pos) :
          /\ ar_in' = [n |-> n, nx |-> nx, ny |-> ny]
          /\ ar_pages' = [ar_pages EXCEPT ![ar_pos] = PageInit(ar_pos, db_result, n, nx, ny)]
    /\ ar_pc' = "built"
    /\ UNCHANGED <<ar_mode, ar_npages, ar_pos, ar_result>>
    /\ UNCHANGED <<db_vars, batch_vars, seg_vars, aux_vars>>

\* AnnualReturn.__init__ goes on to the next page, or ends: with doc_data after
\* the last page, with the exception of the page that raised
ARAdvance ==
    /\ ar_pc = "built"
    /\ IF ar_mode = "page"
       THEN /\ ar_pc' = "done"
            /\ UNCHANGED <<ar_pos, ar_result>>
       ELSE IF ar_pages[ar_pos].raised \/ ar_pos = Len(PageSeq)
            THEN /\ ar_result' = AnnualReturnInit(ar_npages, ar_pages)
                 /\ ar_pc' = "done"
                 /\ UNCHANGED ar_pos
            ELSE /\ ar_pos' = ar_pos + 1
                 /\ ar_pc' = "next"
                 /\ UNCHANGED ar_result
    /\ UNCHANGED <<ar_mode, ar_npages, ar_in, ar_pages>>
    /\ UNCHANGED <<db_vars, batch_vars, seg_vars, aux_vars>>

----------------------------------------------------------------------------
(* ocr_segmented_box *)

ArtifactX == 50   \* a leftmost contour left of this is not counted

\* n_boxes, for at least two contours
\* NBoxes counting every contour
NBoxesAll(contours, left_x) == contours

NBoxes(contours, left_x) == IF left_x < ArtifactX THEN contours - 1 ELSE contours

\* SegCells with the last cell running to the end of the crop
SegCellsAbsorbing(length, n_boxes) ==
    LET step_length == length \div n_boxes
    IN  [step \in 1..n_boxes |->
            <<step_length * (step - 1),
              IF step = n_boxes THEN length ELSE step_length * step>>]

\* box_generator: the column range of each of the n_boxes cells
SegCells(length, n_boxes) ==
    LET step_length == length \div n_boxes
    IN  [step \in 1..n_boxes |->
            <<step_length * (step - 1), Min(step_length * step, length)>>]

\* the text image_to_string reads in cell number order (from 0): the same
\* text in every cell but one
Reading(base, at, other) == [base |-> base, at |-> at, other |-> other]
CellText(ocr, order) == IF order = ocr.at THEN ocr.other ELSE ocr.base

SegIdle ==
    /\ seg_pc = "idle" /\ seg_length = 0 /\ seg_contours = 0 /\ seg_left_x = 0
    /\ seg_cells = <<>> /\ seg_result = "unset"
    /\ seg_type = "number" /\ seg_single = FALSE /\ seg_ocr = Reading(<<>>, 0, <<>>)
    /\ seg_list = <<>> /\ seg_string = <<>>

\* lines 548-589: the contours are counted and the crop is split
SegSplit ==
    /\ seg_pc = "start"
    /\ IF seg_contours >= 2
       THEN /\ seg_cells' = SegCells(seg_length, NBoxes(seg_contours, seg_left_x))
            /\ seg_pc' = "cells"
            /\ UNCHANGED <<seg_result, seg_string>>
       ELSE /\ seg_result' = "None"
            /\ seg_string' = <<"N", "o", "n", "e">>
            /\ seg_pc' = "done"
            /\ UNCHANGED seg_cells
    /\ UNCHANGED <<seg_length, seg_contours, seg_left_x, seg_type, seg_single, seg_ocr, seg_list>>
    /\ UNCHANGED <<batch_vars, ar_vars, db_vars, aux_vars>>



----------------------------------------------------------------------------
(* process_doc_dir and process_dir *)

Workers == 1..NUMBER_OF_PROCESSES
Docs == 1..num_doc
STOP == 0

\* what a document directory holds: npages page images, and the position in
\* PageSeq of the page whose constructor raises (0: none does)
DocContents == [npages : {0, 7, MaxPages}, bad : 0..Len(PageSeq)]

\* what the page constructors do for a document
PageResults(bad) ==
    [k \in Positions |->
        IF k = bad
        THEN [raised |-> TRUE, exc |-> "IndexError", page_data |-> NoData]
        ELSE [raised |-> FALSE, exc |-> "none", page_data |-> PageData(k)]]

\* process_doc_dir: doc_data, None (no return statement is reached), or the
\* exception of AnnualReturn(doc_dir)
ProcessDocDir(isdir, dtype, content) ==
    IF isdir /\ dtype = "Annual Return"
    THEN LET ar == AnnualReturnInit(content.npages, PageResults(content.bad))
         IN  IF ar.raised
             THEN [kind |-> "raise", doc_data |-> NoDocData]
             ELSE [kind |-> "record", doc_data |-> ar.doc_data]
    ELSE [kind |-> "none", doc_data |-> NoDocData]

\* ghost: AnnualReturn is constructed for the document and reaches the page
\* whose constructor raises
PageConstructorRaises(dtype, content) ==
    /\ dtype = "Annual Return"
    /\ content.bad # 0
    /\ \A j \in 1..content.bad : Idx(content.npages, PagePathIndex(j))

\* WorkerPuts without the assert on the result of process_doc_dir
WorkerPutsUnasserted(d, r) ==
    IF r.kind = "raise"
    THEN [done |-> <<>>, failed |-> <<<<d, "traceback">>>>]
    ELSE [done |-> <<[doc |-> d, kind |-> r.kind, data |-> r.doc_data]>>, failed |-> <<>>]

\* the worker's try block: the call, the assert on its result and output.put;
\* the except clause puts (doc_dir, traceback) on the failure queue
WorkerPuts(d, r) ==
    IF r.kind = "record"
    THEN [done |-> <<[doc |-> d, kind |-> r.kind, data |-> r.doc_data]>>, failed |-> <<>>]
    ELSE [done |-> <<>>, failed |-> <<<<d, "traceback">>>>]

\* the body of the sequential loop: doc_data is appended whatever it is
SequentialPuts(d, r) ==
    IF r.kind = "raise"
    THEN [done |-> <<>>, failed |-> <<<<d, "traceback">>>>]
    ELSE [done |-> <<[doc |-> d, kind |-> r.kind, data |-> r.doc_data]>>, failed |-> <<>>]

\* how many 'STOP' the main process puts: range(NUMBER_OF_PROCESSES)
StopCount == NUMBER_OF_PROCESSES

\* pd.concat(doc_data_list): None entries are dropped, and a list holding
\* nothing but None raises ValueError
Concat(lst) ==
    LET kept == {i \in DOMAIN lst : lst[i].kind = "record"}
    IN  IF kept = {}
        THEN [raised |-> TRUE, docs |-> {}]
        ELSE [raised |-> FALSE, docs |-> {lst[i].doc : i \in kept}]

\* the end of process_dir: failed_df and data_df are built and returned
BuildOutputs(datas, fails) ==
    LET failed_df == {fails[i][1] : i \in DOMAIN fails}
        data == IF Len(datas) # 0 THEN Concat(datas) ELSE [raised |-> FALSE, docs |-> {}]
    IN  IF data.raised
        THEN [kind |-> "raise", data_df |-> {}, failed_df |-> {}]
        ELSE [kind |-> "return", data_df |-> data.docs, failed_df |-> failed_df]

NoReturn == [kind |-> "none", data_df |-> {}, failed_df |-> {}]

BatchIdle ==
    /\ parallel = FALSE /\ doc_type = "Annual Return" /\ num_doc = 0
    /\ mainpc = "idle" /\ mi = 1
    /\ task_queue = <<>> /\ done_queue = <<>> /\ failed_queue = <<>>
    /\ doc_data_list = <<>> /\ failed_list = <<>>
    /\ wpc = [w \in Workers |-> "new"]
    /\ wdoc = [w \in Workers |-> 0]
    /\ taken = <<>> /\ stops = [w \in Workers |-> 0]
    /\ outcome = <<>> /\ page_raised = <<>>
    /\ ret = NoReturn

BatchInit ==
    /\ parallel \in BOOLEAN
    /\ doc_type \in {"Annual Return", "Other"}
    /\ num_doc \in 0..MaxDocs
    /\ mainpc = IF parallel THEN "put_tasks" ELSE "seq"
    /\ mi = 1
    /\ task_queue = <<>> /\ done_queue = <<>> /\ failed_queue = <<>>
    /\ doc_data_list = <<>> /\ failed_list = <<>>
    /\ wpc = [w \in Workers |-> "new"]
    /\ wdoc = [w \in Workers |-> 0]
    /\ taken = [d \in Docs |-> <<>>]
    /\ stops = [w \in Workers |-> 0]
    /\ outcome = [d \in Docs |-> "pending"]
    /\ page_raised = [d \in Docs |-> FALSE]
    /\ ret = NoReturn

\* for doc_dir in doc_list: task_queue.put(doc_dir)
MainPutTask ==
    /\ mainpc = "put_tasks"
    /\ IF mi <= num_doc
       THEN /\ task_queue' = Append(task_queue, mi)
            /\ mi' = mi + 1
            /\ UNCHANGED mainpc
       ELSE /\ mainpc' = "put_stops"
            /\ mi' = 1
            /\ UNCHANGED task_queue
    /\ UNCHANGED <<parallel, doc_type, num_doc, done_queue, failed_queue, doc_data_list,
                   failed_list, wpc, wdoc, taken, stops, outcome, page_raised, ret>>
    /\ UNCHANGED <<ar_vars, db_vars, seg_vars, aux_vars>>

\* for i in range(NUMBER_OF_PROCESSES): task_queue.put('STOP')
MainPutStop ==
    /\ mainpc = "put_stops"
    /\ IF mi <= StopCount
       THEN /\ task_queue' = Append(task_queue, STOP)
            /\ mi' = mi + 1
            /\ UNCHANGED mainpc
       ELSE /\ mainpc' = "start"
            /\ mi' = 1
            /\ UNCHANGED task_queue
    /\ UNCHANGED <<parallel, doc_type, num_doc, done_queue, failed_queue, doc_data_list,
                   failed_list, wpc, wdoc, taken, stops, outcome, page_raised, ret>>
    /\ UNCHANGED <<ar_vars, db_vars, seg_vars, aux_vars>>

\* for process in process_list: process.start()
MainStart ==
    /\ mainpc = "start"
    /\ IF mi <= NUMBER_OF_PROCESSES
       THEN /\ wpc' = [wpc EXCEPT ![mi] = "get"]
            /\ mi' = mi + 1
            /\ UNCHANGED mainpc
       ELSE /\ mainpc' = "join"
            /\ mi' = 1
            /\ UNCHANGED wpc
    /\ UNCHANGED <<parallel, doc_type, num_doc, task_queue, done_queue, failed_queue,
                   doc_data_list, failed_list, wdoc, taken, stops, outcome,
                   page_raised, ret>>
    /\ UNCHANGED <<ar_vars, db_vars, seg_vars, aux_vars>>

\* for process in process_list: process.join()
MainJoin ==
    /\ mainpc = "join"
    /\ IF mi <= NUMBER_OF_PROCESSES
       THEN /\ wpc[mi] = "exited"
            /\ mi' = mi + 1
            /\ UNCHANGED mainpc
       ELSE /\ mainpc' = "drain_done"
            /\ mi' = 1
    /\ UNCHANGED <<parallel, doc_type, num_doc, task_queue, done_queue, failed_queue,
                   doc_data_list, failed_list, wpc, wdoc, taken, stops, outcome,
                   page_raised, ret>>
    /\ UNCHANGED <<ar_vars, db_vars, seg_vars, aux_vars>>

\* while not done_queue.empty(): doc_data_list.append(done_queue.get())
MainDrainDone ==
    /\ mainpc = "drain_done"
    /\ IF done_queue # <<>>
       THEN /\ doc_data_list' = Append(doc_data_list, Head(done_queue))
            /\ done_queue' = Tail(done_queue)
            /\ UNCHANGED mainpc
       ELSE /\ mainpc' = "drain_failed"
            /\ UNCHANGED <<doc_data_list, done_queue>>
    /\ UNCHANGED <<parallel, doc_type, num_doc, mi, task_queue, failed_queue,
                   failed_list, wpc, wdoc, taken, stops, outcome, page_raised, ret>>
    /\ UNCHANGED <<ar_vars, db_vars, seg_vars, aux_vars>>

\* while not failed_queue.empty(): failed_list.append(failed_queue.get())
MainDrainFailed ==
    /\ mainpc = "drain_failed"
    /\ IF failed_queue # <<>>
       THEN /\ failed_list' = Append(failed_list, Head(failed_queue))
            /\ failed_queue' = Tail(failed_queue)
            /\ UNCHANGED mainpc
       ELSE /\ mainpc' = "build"
            /\ UNCHANGED <<failed_list, failed_queue>>
    /\ UNCHANGED <<parallel, doc_type, num_doc, mi, task_queue, done_queue,
                   doc_data_list, wpc, wdoc, taken, stops, outcome, page_raised, ret>>
    /\ UNCHANGED <<ar_vars, db_vars, seg_vars, aux_vars>>

\* the sequential loop over doc_list; doc_list holds directories only
MainSequential ==
    /\ mainpc = "seq"
    /\ IF mi <= num_doc
       THEN \E content \in DocContents :
               LET r == ProcessDocDir(TRUE, doc_type, content)
                   puts == SequentialPuts(mi, r)
               IN  /\ doc_data_list' = doc_data_list \o puts.done
                   /\ failed_list' = failed_list \o puts.failed
                   /\ outcome' = [outcome EXCEPT ![mi] = r.kind]
                   /\ page_raised' = [page_raised EXCEPT
                                         ![mi] = PageConstructorRaises(doc_type, content)]
                   /\ mi' = mi + 1
                   /\ UNCHANGED mainpc
       ELSE /\ mainpc' = "build"
            /\ UNCHANGED <<doc_data_list, failed_list, outcome, page_raised, mi>>
    /\ UNCHANGED <<parallel, doc_type, num_doc, task_queue, done_queue, failed_queue,
                   wpc, wdoc, taken, stops, ret>>
    /\ UNCHANGED <<ar_vars, db_vars, seg_vars, aux_vars>>

\* failed_df and data_df: process_dir returns them, or pd.concat raises
MainBuild ==
    /\ mainpc = "build"
    /\ ret' = BuildOutputs(doc_data_list, failed_list)
    /\ mainpc' = IF ret'.kind = "raise" THEN "raised" ELSE "done"
    /\ UNCHANGED <<parallel, doc_type, num_doc, mi, task_queue, done_queue, failed_queue,
                   doc_data_list, failed_list, wpc, wdoc, taken, stops, outcome,
                   page_raised>>
    /\ UNCHANGED <<ar_vars, db_vars, seg_vars, aux_vars>>

\* iter(input.get, 'STOP'): the worker blocks until the queue holds an item
WorkerGet(w) ==
    /\ wpc[w] = "get"
    /\ task_queue # <<>>
    /\ task_queue' = Tail(task_queue)
    /\ IF Head(task_queue) = STOP
       THEN /\ wpc' = [wpc EXCEPT ![w] = "exited"]
            /\ stops' = [stops EXCEPT ![w] = @ + 1]
            /\ UNCHANGED <<wdoc, taken>>
       ELSE /\ wpc' = [wpc EXCEPT ![w] = "work"]
            /\ wdoc' = [wdoc EXCEPT ![w] = Head(task_queue)]
            /\ taken' = [taken EXCEPT ![Head(task_queue)] = Append(@, w)]
            /\ UNCHANGED stops
    /\ UNCHANGED <<parallel, doc_type, num_doc, mainpc, mi, done_queue, failed_queue,
                   doc_data_list, failed_list, outcome, page_raised, ret>>
    /\ UNCHANGED <<ar_vars, db_vars, seg_vars, aux_vars>>

\* the body of the worker's loop for the doc_dir it holds
WorkerProcess(w) ==
    /\ wpc[w] = "work"
    /\ \E content \in DocContents :
          LET r == ProcessDocDir(TRUE, doc_type, content)
              puts == WorkerPuts(wdoc[w], r)
          IN  /\ done_queue' = done_queue \o puts.done
              /\ failed_queue' = failed_queue \o puts.failed
              /\ outcome' = [outcome EXCEPT ![wdoc[w]] = r.kind]
              /\ page_raised' = [page_raised EXCEPT
                                    ![wdoc[w]] = PageConstructorRaises(doc_type, content)]
    /\ wpc' = [wpc EXCEPT ![w] = "get"]
    /\ wdoc' = [wdoc EXCEPT ![w] = 0]
    /\ UNCHANGED <<parallel, doc_type, num_doc, mainpc, mi, task_queue, doc_data_list,
                   failed_list, taken, stops, ret>>
    /\ UNCHANGED <<ar_vars, db_vars, seg_vars, aux_vars>>

Main ==
    \/ MainPutTask \/ MainPutStop \/ MainStart \/ MainJoin
    \/ MainDrainDone \/ MainDrainFailed \/ MainSequential \/ MainBuild

Worker(w) == WorkerGet(w) \/ WorkerProcess(w)

----------------------------------------------------------------------------
(* Strings and the regular expressions of string_processing *)

Strings(S, n) == UNION {[1..k -> S] : k \in 0..n}
Rep(c, k) == [i \in 1..k |-> c]

\* str[:n] and str[n:]
Take(str, n) == SubSeq(str, 1, Min(n, Len(str)))
Drop(str, n) == SubSeq(str, Min(n, Len(str)) + 1, Len(str))
StartsWith(str, prefix) == Take(str, Len(prefix)) = prefix

\* re.sub('[^...]', '', str): the characters of a class are kept
Keep(str, class) == SelectSeq(str, LAMBDA c : c \in class)

\* re.sub('[...]', r, str): every character of a class becomes r
SubClass(str, class, r) == [i \in DOMAIN str |-> IF str[i] \in class THEN r ELSE str[i]]

\* re.sub(lit, r, str) and str.replace(lit, r) for a pattern without
\* metacharacters: the occurrences of the whole of lit, leftmost first
RECURSIVE SubLiteral(_, _, _)
SubLiteral(str, lit, r) ==
    IF Len(str) < Len(lit) THEN str
    ELSE IF StartsWith(str, lit) THEN r \o SubLiteral(Drop(str, Len(lit)), lit, r)
    ELSE <<Head(str)>> \o SubLiteral(Tail(str), lit, r)

\* string[:string.index(c)] inside try/except: str itself when c is not in it
UpTo(str, c) ==
    IF \E i \in DOMAIN str : str[i] = c
    THEN Take(str, (CHOOSE i \in DOMAIN str : str[i] = c /\ \A j \in 1..(i - 1) : str[j] # c) - 1)
    ELSE str

Whitespace == {" ", "\n", "\t"}

\* str.strip()
RECURSIVE LStrip(_)
LStrip(str) == IF str # <<>> /\ Head(str) \in Whitespace THEN LStrip(Tail(str)) ELSE str
RECURSIVE RStrip(_)
RStrip(str) ==
    IF str # <<>> /\ str[Len(str)] \in Whitespace
    THEN RStrip(SubSeq(str, 1, Len(str) - 1)) ELSE str
Strip(str) == RStrip(LStrip(str))

\* str.split(d): the list of the pieces between the occurrences of d
RECURSIVE SplitOn(_, _)
SplitOn(str, d) ==
    IF \E i \in DOMAIN str : str[i] = d
    THEN LET i == CHOOSE i \in DOMAIN str : str[i] = d /\ \A j \in 1..(i - 1) : str[j] # d
         IN  <<Take(str, i - 1)>> \o SplitOn(Drop(str, i), d)
    ELSE <<str>>

\* str.split(): the runs of characters that are not whitespace
SplitWhitespace(str) ==
    LET pieces == SplitOn(SubClass(str, Whitespace, " "), " ")
    IN  SelectSeq(pieces, LAMBDA t : t # <<>>)

\* d.join(list)
RECURSIVE Join(_, _)
Join(list, d) ==
    IF list = <<>> THEN <<>>
    ELSE IF Len(list) = 1 THEN Head(list)
    ELSE Head(list) \o d \o Join(Tail(list), d)

\* the sentinel 'None'
SentinelNone == <<"N", "o", "n", "e">>

Digit == {"0", "1", "2", "5", "7", "8"}
UpperCase == {"A", "I", "N", "O", "S"}
LowerCase == {"a", "b", "e", "i", "l", "n", "o", "s", "x"}
Letter == UpperCase \cup LowerCase

\* the class [\[\]Iil!|] of line 100
OneLike == {"[", "]", "I", "i", "l", "!", "|"}

\* the three nested re.sub of lines 100 and 137: the class, then the
\* patterns 'oO' and 'sS', which have no brackets
Confusables(str) ==
    SubLiteral(SubLiteral(SubClass(str, OneLike, "1"), <<"o", "O">>, <<"0">>),
               <<"s", "S">>, <<"5">>)

----------------------------------------------------------------------------
(* string_processing: the cleaners *)

\* clean_number stripping a country code for as long as one leads the digits
clean_number_every_code(string, data_type) ==
    LET cut == UpTo(string, ".")
        digits == Keep(Confusables(cut), Digit)
        once == IF StartsWith(digits, <<"8", "5", "2">>) THEN Drop(digits, 3)
                ELSE IF StartsWith(digits, <<"0", "8", "5", "2">>) THEN Drop(digits, 4)
                ELSE digits
        local == IF StartsWith(once, <<"8", "5", "2">>) THEN Drop(once, 3)
                 ELSE IF StartsWith(once, <<"0", "8", "5", "2">>) THEN Drop(once, 4)
                 ELSE once
        cleaned == CASE data_type = "contact" ->
                            IF Len(local) >= 8 THEN Take(local, 8) ELSE SentinelNone
                     [] data_type = "number" -> Keep(digits, Digit)
                     [] OTHER -> digits
    IN  IF cleaned # <<>> /\ cleaned # <<"(", ")">> THEN cleaned ELSE SentinelNone

clean_number(string, data_type) ==
    LET cut == UpTo(string, ".")
        digits == Keep(Confusables(cut), Digit)
        local == IF StartsWith(digits, <<"8", "5", "2">>) THEN Drop(digits, 3)
                 ELSE IF StartsWith(digits, <<"0", "8", "5", "2">>) THEN Drop(digits, 4)
                 ELSE digits
        cleaned == CASE data_type = "contact" ->
                            IF Len(local) >= 8 THEN Take(local, 8) ELSE SentinelNone
                     [] data_type = "number" -> Keep(digits, Digit)
                     [] OTHER -> digits
    IN  IF cleaned # <<>> /\ cleaned # <<"(", ")">> THEN cleaned ELSE SentinelNone

clean_single_character(string, data_type) ==
    IF data_type = "letter"
    THEN Take(Keep(Strip(string), UpperCase), 1)
    ELSE Take(Keep(Confusables(string), Digit), 1)

\* list.insert(-1, c): before the last element, at the front of an empty list
InsertBeforeLast(list, c) ==
    IF list = <<>> THEN <<c>>
    ELSE SubSeq(list, 1, Len(list) - 1) \o <<c, list[Len(list)]>>

\* clean_hkid that keeps the parentheses of its input
clean_hkid_keeping(string) ==
    LET cleaned == InsertBeforeLast(Keep(string, UpperCase \cup Digit \cup {"(", ")"}), "(")
                       \o <<")">>
    IN  IF Len(cleaned) > 7 THEN cleaned ELSE SentinelNone

clean_hkid(string) ==
    LET cleaned == InsertBeforeLast(Keep(string, UpperCase \cup Digit), "(") \o <<")">>
    IN  IF Len(cleaned) > 7 THEN cleaned ELSE SentinelNone

\* clean_alphabet keeping only the tokens of three letters or more
clean_alphabet_long_tokens(string) ==
    LET kept == Keep(string, Letter \cup {" ", "\n"})
        cleaned == SubLiteral(SubLiteral(kept, <<"\n">>, <<" ">>), <<" ", " ">>, <<" ">>)
        cleaned_list == SelectSeq(SplitWhitespace(cleaned), LAMBDA t : Len(t) >= 3)
    IN  IF cleaned_list = <<>> THEN SentinelNone
        ELSE Join(cleaned_list, <<" ">>)

clean_alphabet(string) ==
    LET kept == Keep(string, Letter \cup {" ", "\n"})
        cleaned == SubLiteral(SubLiteral(kept, <<"\n">>, <<" ">>), <<" ", " ">>, <<" ">>)
        cleaned_list == SplitWhitespace(cleaned)
        short == Cardinality({i \in DOMAIN cleaned_list : Len(cleaned_list[i]) < 3})
    IN  IF short = Len(cleaned_list) THEN SentinelNone
        ELSE Join(cleaned_list, <<" ">>)

\* [^a-zA-Z,\-0-9\s.] is removed
clean_chinese(string) == Keep(string, Letter \cup Digit \cup Whitespace \cup {",", "-", "."})

check_empty(string) ==
    LET string_list == SplitOn(string, " ")
        check == Cardinality({i \in DOMAIN string_list : Len(string_list[i]) < 3})
    IN  IF check = Len(string_list) THEN SentinelNone
        ELSE Join(string_list, <<" ">>)

\* the last line of ocr_box, on the text image_to_string returned
ocr_box(ocr_string) ==
    IF ocr_string # <<>> /\ ocr_string # <<"N", "/", "A">>
    THEN Strip(ocr_string) ELSE SentinelNone

\* fields of the pages built from the text image_to_string returns for their box
FieldNames == {"company_name", "company_number", "corporate_company_secretary_email"}
Field(name, ocr_string) ==
    CASE name = "company_name" ->
             LET company_name_string == Strip(check_empty(clean_chinese(ocr_box(ocr_string))))
             IN  IF company_name_string # <<>>
                 THEN Strip(clean_alphabet(company_name_string)) ELSE SentinelNone
      [] name = "company_number" ->
             LET company_number_string == Strip(ocr_box(ocr_string))
             IN  IF company_number_string # <<>>
                 THEN Take(clean_number(company_number_string, "number"), 8)
                 ELSE SentinelNone
      [] name = "corporate_company_secretary_email" ->
             LET email_string == ocr_box(ocr_string)
             IN  IF email_string # <<"(", "N", "i", "l", ")">> THEN email_string
                 ELSE SentinelNone

\* the strings the cleaners are applied to
NumberChars == OneLike \cup {"O", "o", "S", "s", "0", "5", "7", ".", "x"}
CountryCodes == {<<>>, <<"8", "5", "2">>, <<"0", "8", "5", "2">>}
ContactInputs ==
    {lead \o a \o b \o Rep("7", k) \o tail :
        lead \in {<<>>, <<"+">>}, a \in CountryCodes, b \in CountryCodes,
        k \in 0..MaxDigits, tail \in {<<>>, <<".", "7">>, <<"I">>}}
NumberInputs == Strings(NumberChars, MaxText) \cup ContactInputs
HkidInputs == Strings({"A", "1", " "}, MaxHkid)
AlphabetInputs == Strings({"a", "1", " ", "\n", "\t"}, MaxWords)
OcrTexts ==
    Strings({"a", "1", " ", "\n"}, MaxText)
        \cup {<<"N", "/", "A">>, <<"N", "/", "A", "\n">>,
              <<"(", "N", "i", "l", ")">>, <<"(", "N", "i", "l", ")", "\n">>}

TxtIdle ==
    /\ txt_pc = "idle" /\ txt_fn = "none" /\ txt_type = "none" /\ txt_n = 0
    /\ txt_in = <<>> /\ txt_out = <<>>

Applies(fn) == txt_pc = "call" /\ txt_fn = fn
Returns(value) ==
    /\ txt_out' = value
    /\ txt_pc' = "done"
    /\ UNCHANGED <<txt_fn, txt_type, txt_n, txt_in>>
    /\ UNCHANGED <<batch_vars, ar_vars, db_vars, seg_vars, pp_vars, cat_vars, bx_vars, late_vars>>

CleanNumber == Applies("clean_number") /\ Returns(clean_number(txt_in, txt_type))
CleanSingleCharacter ==
    Applies("clean_single_character") /\ Returns(clean_single_character(txt_in, txt_type))
CleanHkid == Applies("clean_hkid") /\ Returns(clean_hkid(txt_in))
CleanAlphabet == Applies("clean_alphabet") /\ Returns(clean_alphabet(txt_in))
StoreField == txt_pc = "call" /\ txt_fn \in FieldNames /\ Returns(Field(txt_fn, txt_in))
CheckEmpty == Applies("check_empty") /\ Returns(check_empty(txt_in))

----------------------------------------------------------------------------
(* string_processing: separate_text *)

\* the whitespace a string starts with
RECURSIVE LeadingRun(_)
LeadingRun(str) ==
    IF str # <<>> /\ Head(str) \in Whitespace THEN 1 + LeadingRun(Tail(str)) ELSE 0

\* re.sub(r'\s{n,}', ';', str): each whole run of n or more whitespace
\* characters becomes one ';'
RECURSIVE SubRuns(_, _)
SubRuns(str, n) ==
    IF str = <<>> THEN <<>>
    ELSE IF Head(str) \in Whitespace
    THEN LET k == LeadingRun(str)
         IN  (IF k >= n THEN <<";">> ELSE Take(str, k)) \o SubRuns(Drop(str, k), n)
    ELSE <<Head(str)>> \o SubRuns(Tail(str), n)

\* str.lower()
Lower(str) ==
    [i \in DOMAIN str |->
        CASE str[i] = "A" -> "a" [] str[i] = "I" -> "i" [] str[i] = "N" -> "n"
          [] str[i] = "O" -> "o" [] str[i] = "S" -> "s" [] OTHER -> str[i]]

\* lit in str
Contains(str, lit) ==
    \E i \in 1..(Len(str) - Len(lit) + 1) : SubSeq(str, i, i + Len(lit) - 1) = lit

HasNil(str) == Contains(Lower(str), <<"n", "i", "l">>)

\* lines 63-66: the cleaning of one entry
CleanEntry(entry, data_type) ==
    CASE data_type = "letter" -> IF HasNil(entry) THEN SentinelNone ELSE clean_alphabet(entry)
      [] data_type = "number" ->
            IF HasNil(entry) THEN SentinelNone ELSE clean_number(entry, "number")
      [] OTHER -> entry

\* separate_text that splits on the shortest run as well
separate_text_every_run(string, nSpaces, data_type) ==
    LET prepared == clean_chinese(Strip(SubClass(string, {"\n"}, " ")))
        marked == SubRuns(prepared, 1)
        string_list == SelectSeq(SplitOn(marked, ";"), LAMBDA e : e # <<>>)
        cleaned_list == [i \in DOMAIN string_list |-> CleanEntry(string_list[i], data_type)]
        joined == Join(cleaned_list, <<";">>)
    IN  IF joined # <<>> THEN joined ELSE SentinelNone

\* lines 58-70
separate_text(string, nSpaces, data_type) ==
    LET prepared == clean_chinese(Strip(SubClass(string, {"\n"}, " ")))
        marked == SubRuns(prepared, nSpaces)
        string_list == SelectSeq(SplitOn(marked, ";"), LAMBDA e : e # <<>>)
        cleaned_list == [i \in DOMAIN string_list |-> CleanEntry(string_list[i], data_type)]
        joined == Join(cleaned_list, <<";">>)
    IN  IF joined # <<>> THEN joined ELSE SentinelNone

\* the nSpaces of the callers in document_layouts and the default
SpaceCounts == {1, 2, 3}
Pieces ==
    {<<"a", "a", "a">>, <<"n", "i", "l">>, <<"1", "7">>, <<" ">>, <<"\n">>, <<"(">>}
RECURSIVE Flatten(_)
Flatten(list) == IF list = <<>> THEN <<>> ELSE Head(list) \o Flatten(Tail(list))
ColumnTexts == {Flatten(l) : l \in UNION {[1..k -> Pieces] : k \in 0..MaxPieces}}

SeparateText == Applies("separate_text") /\ Returns(separate_text(txt_in, txt_n, txt_type))

----------------------------------------------------------------------------
(* ocr_segmented_box: the strings of the cells *)

\* the cell whose order is 6, "the seventh digit of the second part of the HKID"
TypeSwitch == 6

\* lines 596-608: box_string after cleaning, for the cell of the given order
CellString(box_string, order, data_type, single) ==
    IF order # TypeSwitch
    THEN IF ~single THEN clean_number(box_string, data_type)
         ELSE clean_single_character(box_string, data_type)
    ELSE LET alnum == Keep(box_string, Letter \cup Digit)
         IN  IF ~\E i \in DOMAIN alnum : alnum[i] \in UpperCase
             THEN clean_single_character(alnum, "number")
             ELSE alnum

\* lines 591-610: each cell is recognised and the cell strings are joined;
\* cv2.GaussianBlur raises on a cell without columns
SegRecognise ==
    /\ seg_pc = "cells"
    /\ IF \E i \in DOMAIN seg_cells : seg_cells[i][2] = seg_cells[i][1]
       THEN /\ seg_result' = "raised"
            /\ UNCHANGED <<seg_list, seg_string>>
       ELSE LET img_string_list ==
                    [i \in DOMAIN seg_cells |->
                        CellString(CellText(seg_ocr, i - 1), i - 1, seg_type, seg_single)]
            IN  /\ seg_list' = img_string_list
                /\ seg_string' = Join(img_string_list, <<" ">>)
                /\ seg_result' = "joined"
    /\ seg_pc' = "done"
    /\ UNCHANGED <<seg_length, seg_contours, seg_left_x, seg_cells, seg_type, seg_single, seg_ocr>>
    /\ UNCHANGED <<batch_vars, ar_vars, db_vars, aux_vars>>

\* what a cell may read
CellTexts ==
    {<<>>, <<"A">>, <<"a">>, <<"7">>, <<"I">>, <<"S">>, <<"A", "7">>, <<"a", "7">>,
     <<"7", "7">>, <<"-">>}

----------------------------------------------------------------------------
(* The presentor block of PageOne: regex_presentors_* and search_string.    *)
(* The block is a sequence of words separated by single spaces; a label is  *)
(* an anchor word with its ':' ("Name:"), and an anchor word may also stand *)
(* bare ("Address").                                                        *)

AnchorWords == <<"Name", "Address", "Tel", "Fax", "Email">>
Labels == <<"Name:", "Address:", "Tel:", "Fax:", "Email:">>
EmailWords == {"a@b.com"}

\* (?<=Word[;:\s!]): the word with its ':', or bare with a space after it
Behind(block, i, a) ==
    block[i] = Labels[a] \/ (block[i] = AnchorWords[a] /\ i < Len(block))

\* the lookaheads: (?=Address) and (?=E(m|-m)ail) need no delimiter,
\* (?=Tel[;:\s]) and (?=Fax[;:\s]) need one
Ahead(block, j, a) ==
    CASE a \in {2, 5} -> block[j] \in {Labels[a], AnchorWords[a]}
      [] OTHER -> Behind(block, j, a)

\* regex.search with [\s\S]* between lookbehind and lookahead: the leftmost
\* start that has an end, and for it the rightmost end
Between(block, a, b) ==
    LET starts == {i \in DOMAIN block :
                      Behind(block, i, a) /\ \E j \in (i + 1)..Len(block) : Ahead(block, j, b)}
    IN  IF starts = {} THEN <<"None">>
        ELSE LET i == CHOOSE i \in starts : \A k \in starts : i <= k
                 ends == {j \in (i + 1)..Len(block) : Ahead(block, j, b)}
                 j == CHOOSE j \in ends : \A k \in ends : k <= j
             IN  SubSeq(block, i + 1, j - 1)

\* regex_presentors_email: [\s\S]*@[\s\S]*\.\w{1,} runs to the end of the
\* last word that holds a '.' after an '@'
ThroughEmail(block) ==
    LET starts == {i \in DOMAIN block :
                      Behind(block, i, 5) /\ \E j \in (i + 1)..Len(block) : block[j] \in EmailWords}
    IN  IF starts = {} THEN <<"None">>
        ELSE LET i == CHOOSE i \in starts : \A k \in starts : i <= k
                 ends == {j \in (i + 1)..Len(block) : block[j] \in EmailWords}
                 j == CHOOSE j \in ends : \A k \in ends : k <= j
             IN  SubSeq(block, i + 1, j)

\* the five search_string calls of PageOne: name, address, telephone, fax, email
search_presentors(block) ==
    <<Between(block, 1, 2), Between(block, 2, 3), Between(block, 3, 4),
      Between(block, 4, 5), ThroughEmail(block)>>

\* the blocks searched: for each anchor in turn its label, or not, then the
\* text of the field, in which a label may occur again
FieldTexts == {<<>>, <<"w">>, <<"w", "Address:">>, <<"w", "Tel:">>}
EmailTexts == {<<>>, <<"a@b.com">>, <<"a@b.com", "w">>, <<"w">>}
Part(present, a, text) == (IF present THEN <<Labels[a]>> ELSE <<>>) \o text
Example ==
    <<"Name:", "John", "Smith", "Address:", "1", "Main", "St", "Tel:", "12345678",
      "Fax:", "23456789", "Email:", "a@b.com">>
Blocks ==
    {Part(p[1], 1, t[1]) \o Part(p[2], 2, t[2]) \o Part(p[3], 3, t[3])
         \o Part(p[4], 4, t[4]) \o Part(p[5], 5, e) :
        p \in [1..5 -> BOOLEAN], t \in [1..4 -> FieldTexts], e \in EmailTexts}
        \cup {Example}

SearchPresentors == Applies("presentors") /\ Returns(search_presentors(txt_in))

----------------------------------------------------------------------------
(* AnnualReturn.__init__: the page paths and their order.  A file name is   *)
(* a sequence of pieces: a stem, the digits of a number, an extension.      *)

Numerals == <<"0", "1", "2", "3", "4", "5", "6", "7", "8", "9">>
IsNumeral(c) == \E d \in DOMAIN Numerals : Numerals[d] = c
NumeralValue(c) == (CHOOSE d \in DOMAIN Numerals : Numerals[d] = c) - 1

\* str(n)
RECURSIVE Str(_)
Str(n) == IF n < 10 THEN <<Numerals[n + 1]>> ELSE Str(n \div 10) \o <<Numerals[(n % 10) + 1]>>

\* int(digits)
RECURSIVE IntOf(_)
IntOf(digits) ==
    IF digits = <<>> THEN 0
    ELSE 10 * IntOf(SubSeq(digits, 1, Len(digits) - 1)) + NumeralValue(digits[Len(digits)])

\* "page_" + str(count) + ".jpg", the name convert gives a page image
PageFile(n) == <<"page_">> \o Str(n) \o <<".jpg">>
OtherFile == <<"notes", ".txt">>

\* sort_regex.search(name).group(): the first digit of the name and the
\* digit after it, if there is one (\d{1,2})
SortRegexGroup(name) ==
    LET i == CHOOSE i \in DOMAIN name : IsNumeral(name[i]) /\ \A j \in 1..(i - 1) : ~IsNumeral(name[j])
    IN  IF i < Len(name) /\ IsNumeral(name[i + 1]) THEN <<name[i], name[i + 1]>>
        ELSE <<name[i]>>

\* SortKey with the pattern \d: the first digit alone
SortKeyFirstDigit(name) == IntOf(Take(SortRegexGroup(name), 1))

\* the key of page_paths.sort
SortKey(name) == IntOf(SortRegexGroup(name))

\* list.sort(key): stable, so names of equal key keep their order
RECURSIVE Insert(_, _)
Insert(sorted, name) ==
    IF sorted = <<>> THEN <<name>>
    ELSE IF SortKey(sorted[Len(sorted)]) <= SortKey(name) THEN Append(sorted, name)
    ELSE Append(Insert(SubSeq(sorted, 1, Len(sorted) - 1), name), sorted[Len(sorted)])
RECURSIVE Sort(_)
Sort(list) ==
    IF list = <<>> THEN <<>>
    ELSE Insert(Sort(SubSeq(list, 1, Len(list) - 1)), list[Len(list)])

\* page.endswith('.jpg')
IsJpg(name) == name # <<>> /\ name[Len(name)] = ".jpg"

\* lines 79-80
page_paths(listing) == Sort(SelectSeq(listing, IsJpg))

\* lines 82-86: the five indexings of page_paths
NoPages == [raised |-> FALSE, pages |-> <<>>]
BoundPages(paths) ==
    IF \E k \in DOMAIN PageSeq : ~Idx(Len(paths), PagePathIndex(k))
    THEN [raised |-> TRUE, pages |-> <<>>]
    ELSE [raised |-> FALSE, pages |-> [k \in DOMAIN PageSeq |-> paths[PagePathIndex(k) + 1]]]

\* the directory listings: page_1 .. page_n as convert writes them, with or
\* without page_100 and a file that is no image, listed in the order of
\* their names or its reverse, starting anywhere
ByName(n) ==
    LET first == [i \in 1..Min(n, 1) |-> PageFile(1)]
        tens == [i \in 1..Max(n - 9, 0) |-> PageFile(i + 9)]
        units == [i \in 1..Max(Min(n, 9) - 1, 0) |-> PageFile(i + 1)]
    IN  first \o tens \o units
Reverse(list) == [i \in DOMAIN list |-> list[Len(list) + 1 - i]]
Rotate(list, r) ==
    LET k == IF list = <<>> THEN 0 ELSE r % Len(list)
    IN  SubSeq(list, k + 1, Len(list)) \o SubSeq(list, 1, k)
Listings ==
    {Rotate(order, r) :
        order \in {extra \o l : extra \in {<<>>, <<OtherFile>>, <<PageFile(100)>>},
                                l \in {ByName(n) : n \in 0..MaxFiles}
                                      \cup {Reverse(ByName(n)) : n \in 0..MaxFiles}},
        r \in 0..MaxFiles}

PpIdle == pp_pc = "idle" /\ pp_listing = <<>> /\ pp_paths = <<>> /\ pp_pages = NoPages

\* lines 79-80: the .jpg files are listed and sorted
SortPagePaths ==
    /\ pp_pc = "list"
    /\ pp_paths' = page_paths(pp_listing)
    /\ pp_pc' = "sorted"
    /\ UNCHANGED <<pp_listing, pp_pages>>
    /\ UNCHANGED <<batch_vars, ar_vars, db_vars, seg_vars, txt_vars, cat_vars, bx_vars, late_vars>>

\* lines 82-86: the five pages take their images
BindPages ==
    /\ pp_pc = "sorted"
    /\ pp_pages' = BoundPages(pp_paths)
    /\ pp_pc' = "bound"
    /\ UNCHANGED <<pp_listing, pp_paths>>
    /\ UNCHANGED <<batch_vars, ar_vars, db_vars, seg_vars, txt_vars, cat_vars, bx_vars, late_vars>>

----------------------------------------------------------------------------
(* dir_categorize(parallel=True): threads that run categorize.  The working *)
(* directory belongs to the process, so all threads share it: "base" is the *)
(* directory dir_categorize was called in, "dir" its argument inside base.  *)
(* Every document is of a type whose folder is <type>/<type> (line 293).    *)

Threads == 1..NUMBER_OF_THREADS
CatDocs == DOMAIN cat_loc
InCategorize(t) ==
    cat_pc[t] \in {"assert", "isdir", "getcwd", "chdir", "ocr", "mkdir_type",
                   "mkdir_sub", "rename", "restore"}

\* os.path.isdir(directory) for the path dir/doc, relative to the working directory
IsDirFromBase(d) == cat_cwd = "base" /\ cat_loc[d] = "source"
\* doc/page_1.jpg and doc, relative to the working directory, after chdir(dir)
SeenFromDir(d) == cat_cwd = "dir" /\ cat_loc[d] = "source"

CatStep(t, pc) == cat_pc' = [cat_pc EXCEPT ![t] = pc]
CatFail(t, how) == cat_failed' = [cat_failed EXCEPT ![cat_doc[t]] = how]
CatRest == UNCHANGED <<batch_vars, ar_vars, db_vars, seg_vars, txt_vars, pp_vars, bx_vars, late_vars>>

\* line 349: input_queue.get()
CatGet(t) ==
    /\ cat_pc[t] = "get"
    /\ cat_queue # <<>>
    /\ cat_queue' = Tail(cat_queue)
    /\ IF Head(cat_queue) = STOP
       THEN /\ CatStep(t, "exited")
            /\ UNCHANGED <<cat_doc, cat_overlap>>
       ELSE /\ CatStep(t, "assert")
            /\ cat_doc' = [cat_doc EXCEPT ![t] = Head(cat_queue)]
            /\ cat_overlap' = (cat_overlap \/ \E u \in Threads \ {t} : InCategorize(u))
    /\ UNCHANGED <<cat_main, cat_cwd, cat_saved, cat_loc, cat_made, cat_moves, cat_failed>>
    /\ CatRest

\* line 250: the assert is outside the try, so its failure ends the thread
CatAssert(t) ==
    /\ cat_pc[t] = "assert"
    /\ IF IsDirFromBase(cat_doc[t])
       THEN CatStep(t, "isdir") /\ UNCHANGED cat_failed
       ELSE CatStep(t, "dead") /\ CatFail(t, "AssertionError")
    /\ UNCHANGED <<cat_main, cat_queue, cat_cwd, cat_doc, cat_saved, cat_loc, cat_made,
                   cat_moves, cat_overlap>>
    /\ CatRest

\* line 252: without a directory categorize returns
CatIsDir(t) ==
    /\ cat_pc[t] = "isdir"
    /\ IF IsDirFromBase(cat_doc[t])
       THEN CatStep(t, "getcwd") /\ UNCHANGED cat_failed
       ELSE CatStep(t, "get") /\ CatFail(t, "skipped")
    /\ UNCHANGED <<cat_main, cat_queue, cat_cwd, cat_doc, cat_saved, cat_loc, cat_made,
                   cat_moves, cat_overlap>>
    /\ CatRest

\* line 253: current_directory = os.getcwd()
CatGetcwd(t) ==
    /\ cat_pc[t] = "getcwd"
    /\ cat_saved' = [cat_saved EXCEPT ![t] = cat_cwd]
    /\ CatStep(t, "chdir")
    /\ UNCHANGED <<cat_main, cat_queue, cat_cwd, cat_doc, cat_loc, cat_made, cat_moves,
                   cat_failed, cat_overlap>>
    /\ CatRest

\* lines 259-261: os.chdir(dir), outside the try; dir is found from base only
CatChdir(t) ==
    /\ cat_pc[t] = "chdir"
    /\ IF cat_cwd = "base"
       THEN cat_cwd' = "dir" /\ CatStep(t, "ocr") /\ UNCHANGED cat_failed
       ELSE CatStep(t, "dead") /\ CatFail(t, "FileNotFoundError") /\ UNCHANGED cat_cwd
    /\ UNCHANGED <<cat_main, cat_queue, cat_doc, cat_saved, cat_loc, cat_made, cat_moves,
                   cat_overlap>>
    /\ CatRest

\* lines 264-272: image_to_string(doc/page_1.jpg) and the match of the type;
\* an unreadable page is caught at line 309
CatOcr(t) ==
    /\ cat_pc[t] = "ocr"
    /\ IF SeenFromDir(cat_doc[t])
       THEN CatStep(t, "mkdir_type") /\ UNCHANGED cat_failed
       ELSE CatStep(t, "restore") /\ CatFail(t, "caught")
    /\ UNCHANGED <<cat_main, cat_queue, cat_cwd, cat_doc, cat_saved, cat_loc, cat_made,
                   cat_moves, cat_overlap>>
    /\ CatRest

\* lines 274-277: os.mkdir(doc_type) in the working directory, errors passed over
CatMkdirType(t) ==
    /\ cat_pc[t] = "mkdir_type"
    /\ cat_made' = [cat_made EXCEPT ![cat_cwd] = IF @ = "none" THEN "type" ELSE @]
    /\ CatStep(t, "mkdir_sub")
    /\ UNCHANGED <<cat_main, cat_queue, cat_cwd, cat_doc, cat_saved, cat_loc, cat_moves,
                   cat_failed, cat_overlap>>
    /\ CatRest

\* lines 292-295: os.mkdir(doc_type/doc_type), which needs doc_type to be there
CatMkdirSub(t) ==
    /\ cat_pc[t] = "mkdir_sub"
    /\ cat_made' = [cat_made EXCEPT ![cat_cwd] = IF @ = "type" THEN "sub" ELSE @]
    /\ CatStep(t, "rename")
    /\ UNCHANGED <<cat_main, cat_queue, cat_cwd, cat_doc, cat_saved, cat_loc, cat_moves,
                   cat_failed, cat_overlap>>
    /\ CatRest

\* line 296: os.rename(doc, doc_type/doc_type/doc), relative to the working
\* directory; an OSError is caught at line 309
CatRename(t) ==
    /\ cat_pc[t] = "rename"
    /\ IF SeenFromDir(cat_doc[t]) /\ cat_made["dir"] = "sub"
       THEN /\ cat_loc' = [cat_loc EXCEPT ![cat_doc[t]] = "dest"]
            /\ cat_moves' = [cat_moves EXCEPT ![cat_doc[t]] = @ + 1]
            /\ UNCHANGED cat_failed
       ELSE /\ CatFail(t, "caught")
            /\ UNCHANGED <<cat_loc, cat_moves>>
    /\ CatStep(t, "restore")
    /\ UNCHANGED <<cat_main, cat_queue, cat_cwd, cat_doc, cat_saved, cat_made, cat_overlap>>
    /\ CatRest

\* lines 312-313: finally os.chdir(current_directory)
CatRestore(t) ==
    /\ cat_pc[t] = "restore"
    /\ cat_cwd' = cat_saved[t]
    /\ CatStep(t, "get")
    /\ UNCHANGED <<cat_main, cat_queue, cat_doc, cat_saved, cat_loc, cat_made, cat_moves,
                   cat_failed, cat_overlap>>
    /\ CatRest

\* lines 375-376: join returns for a thread that has ended, either way
CatJoin ==
    /\ cat_main = "join"
    /\ \A t \in Threads : cat_pc[t] \in {"exited", "dead"}
    /\ cat_main' = "done"
    /\ UNCHANGED <<cat_queue, cat_cwd, cat_pc, cat_doc, cat_saved, cat_loc, cat_made,
                   cat_moves, cat_failed, cat_overlap>>
    /\ CatRest

CatThread(t) ==
    \/ CatGet(t) \/ CatAssert(t) \/ CatIsDir(t) \/ CatGetcwd(t) \/ CatChdir(t)
    \/ CatOcr(t) \/ CatMkdirType(t) \/ CatMkdirSub(t) \/ CatRename(t) \/ CatRestore(t)

CatIdle ==
    /\ cat_main = "idle" /\ cat_queue = <<>> /\ cat_cwd = "base"
    /\ cat_pc = [t \in Threads |-> "idle"]
    /\ cat_doc = [t \in Threads |-> 0]
    /\ cat_saved = [t \in Threads |-> "base"]
    /\ cat_loc = <<>> /\ cat_moves = <<>> /\ cat_failed = <<>>
    /\ cat_made = [c \in {"base", "dir"} |-> "none"]
    /\ cat_overlap = FALSE

----------------------------------------------------------------------------
(* The box list of a page: get_boxes_info and the sorted calls of the page  *)
(* constructors.  A rectangle is [x, y, w, h]; an entry of boxes_info is    *)
(* the pair (area, rectangle), box[0] and box[1] in the code.               *)

RectSides == {1, 2}
Rects == [x : {0}, y : 0..MaxRectY, w : RectSides, h : RectSides]
\* the bounding rectangles of the contours of one image, all different
ContourLists ==
    {l \in UNION {[1..n -> Rects] : n \in 0..MaxRects} :
        \A i, j \in DOMAIN l : i # j => l[i] # l[j]}

\* get_boxes_info: (area, [x, y, w, h]) for each contour, in contour order
get_boxes_info(contours) ==
    [i \in DOMAIN contours |-> <<contours[i].w * contours[i].h, contours[i]>>]

Area(box) == box[1]
Y(box) == box[2].y

\* sorted(list, key): stable, so boxes of equal key keep their order
RECURSIVE InsertByKey(_, _, _)
InsertByKey(sorted, box, key) ==
    IF sorted = <<>> THEN <<box>>
    ELSE IF key[sorted[Len(sorted)]] <= key[box] THEN Append(sorted, box)
    ELSE Append(InsertByKey(SubSeq(sorted, 1, Len(sorted) - 1), box, key), sorted[Len(sorted)])
RECURSIVE SortedByKey(_, _)
SortedByKey(list, key) ==
    IF list = <<>> THEN <<>>
    ELSE InsertByKey(SortedByKey(SubSeq(list, 1, Len(list) - 1), key), list[Len(list)], key)

BoxesOf(list) == {list[i] : i \in DOMAIN list}

\* sorted by area and then by vertical position
SortedByAreaThenY(list) ==
    SortedByKey(SortedByKey(list, [b \in BoxesOf(list) |-> Y(b)]),
                [b \in BoxesOf(list) |-> 0 - Area(b)])

\* sorted(boxes_info, key = lambda box: box[0], reverse = True): the largest
\* area first, boxes of equal area in the order of the list
SortedByArea(list) == SortedByKey(list, [b \in BoxesOf(list) |-> 0 - Area(b)])

\* sorted(boxes_of_interest, key = lambda box: box[1][1])
SortedByY(list) == SortedByKey(list, [b \in BoxesOf(list) |-> Y(b)])

BxIdle ==
    /\ bx_pc = "idle" /\ bx_page = 0 /\ bx_contours = <<>>
    /\ bx_info = <<>> /\ bx_sorted = <<>> /\ bx_top = <<>>

BxRest == UNCHANGED <<batch_vars, ar_vars, db_vars, seg_vars, txt_vars, pp_vars, cat_vars, late_vars>>

\* process_image: boxes_info = get_boxes_info(...)
GetBoxesInfo ==
    /\ bx_pc = "contours"
    /\ bx_info' = get_boxes_info(bx_contours)
    /\ bx_pc' = "info"
    /\ UNCHANGED <<bx_page, bx_contours, bx_sorted, bx_top>>
    /\ BxRest

\* boxes_of_interest = sorted(boxes_info, key = area, reverse = True)[:K]
TakeLargest ==
    /\ bx_pc = "info"
    /\ bx_sorted' = SortedByArea(bx_info)
    /\ bx_top' = Take(SortedByArea(bx_info), TopK(bx_page))
    /\ bx_pc' = "largest"
    /\ UNCHANGED <<bx_page, bx_contours, bx_info>>
    /\ BxRest

\* PageThree, PageFour: boxes_of_interest = sorted(boxes_of_interest, key = y)
OrderByPosition ==
    /\ bx_pc = "largest"
    /\ bx_page \in {3, 4}
    /\ bx_top' = SortedByY(bx_top)
    /\ bx_pc' = "positioned"
    /\ UNCHANGED <<bx_page, bx_contours, bx_info, bx_sorted>>
    /\ BxRest

----------------------------------------------------------------------------
(* calculate_angle.  A segment is given by its angle                        *)
(* math.degrees(math.atan2(y2 - y1, x2 - x1)), in whole degrees; the mean   *)
(* of the angles kept is the fraction num / den.                            *)

\* HoughLinesP returns None when it finds no segment
NoLines == [none |-> TRUE, segments |-> <<>>]
Lines(segments) == [none |-> FALSE, segments |-> segments]
SegmentAngles == {-135, -90, -80, -45, -31, -30, -10, 0, 10, 30, 31, 45, 80, 90, 135, 180}
HoughLines == {NoLines} \cup {Lines(l) : l \in UNION {[1..n -> SegmentAngles] : n \in 1..MaxSegments}}

\* lines 81-86: the angle appended for a segment that is kept
Folded(angle) ==
    LET a == IF angle > 30 THEN 90 - angle ELSE angle
    IN  IF a < -30 THEN a + 90 ELSE a

\* line 80
Kept(angle) == angle # 0 /\ angle # -90

RECURSIVE SumSeq(_)
SumSeq(list) == IF list = <<>> THEN 0 ELSE list[1] + SumSeq(Tail(list))

\* lines 76-87: the list angles
AnglesOf(lines) ==
    LET kept == SelectSeq(lines.segments, Kept)
    IN  [i \in DOMAIN kept |-> Folded(kept[i])]

SkewAngle(num, den) == [raised |-> FALSE, num |-> num, den |-> den]

\* calculate_angle with the TypeError of iterating None let through
calculate_angle_uncaught(lines) ==
    IF lines = NoLines THEN [raised |-> TRUE, num |-> 0, den |-> 1]
    ELSE LET angles == AnglesOf(lines)
         IN  IF Len(angles) # 0 THEN SkewAngle(SumSeq(angles), Len(angles))
             ELSE SkewAngle(0, 1)

\* lines 76-96; iterating None raises a TypeError, which line 93 catches
calculate_angle(lines) ==
    IF lines = NoLines THEN SkewAngle(0, 1)
    ELSE LET angles == AnglesOf(lines)
         IN  IF Len(angles) # 0 THEN SkewAngle(SumSeq(angles), Len(angles))
             ELSE SkewAngle(0, 1)

AngIdle == ang_pc = "idle" /\ ang_lines = NoLines /\ ang_out = SkewAngle(0, 1)

CalculateAngle ==
    /\ ang_pc = "call"
    /\ ang_out' = calculate_angle(ang_lines)
    /\ ang_pc' = "returned"
    /\ UNCHANGED ang_lines
    /\ UNCHANGED <<batch_vars, ar_vars, db_vars, seg_vars, txt_vars, pp_vars, cat_vars, bx_vars,
                   cv_vars>>

----------------------------------------------------------------------------
(* dir_convert(parallel=True): the worker processes and the main process    *)
(* from the start of the workers on.                                        *)

Converters == 1..CONVERT_PROCESSES
CvRest ==
    UNCHANGED <<batch_vars, ar_vars, db_vars, seg_vars, txt_vars, pp_vars, cat_vars, bx_vars,
                ang_vars>>
CvStep(w, pc) == cv_pc' = [cv_pc EXCEPT ![w] = pc]

\* line 160: input_queue.get()
CvGet(w) ==
    /\ cv_pc[w] = "get"
    /\ cv_queue # <<>>
    /\ cv_queue' = Tail(cv_queue)
    /\ IF Head(cv_queue) = STOP
       THEN CvStep(w, "exited") /\ UNCHANGED cv_file
       ELSE CvStep(w, "convert") /\ cv_file' = [cv_file EXCEPT ![w] = Head(cv_queue)]
    /\ UNCHANGED <<cv_main, cv_unsuccessful, cv_raises, cv_converted, cv_list, cv_printed>>
    /\ CvRest

\* lines 161-165: convert_pdf(pdf_file) inside the try
CvConvert(w) ==
    /\ cv_pc[w] = "convert"
    /\ IF cv_file[w] \in cv_raises
       THEN CvStep(w, "except") /\ UNCHANGED cv_converted
       ELSE CvStep(w, "get") /\ cv_converted' = cv_converted \cup {cv_file[w]}
    /\ UNCHANGED <<cv_main, cv_queue, cv_unsuccessful, cv_file, cv_raises, cv_list, cv_printed>>
    /\ CvRest

\* lines 165-167: the handler; unsuccessful is assigned in worker and is
\* neither nonlocal nor bound, so line 166 raises UnboundLocalError, line 167
\* is not reached and the process ends
CvExcept(w) ==
    /\ cv_pc[w] = "except"
    /\ CvStep(w, "dead")
    /\ UNCHANGED <<cv_main, cv_queue, cv_unsuccessful, cv_file, cv_raises, cv_converted,
                   cv_list, cv_printed>>
    /\ CvRest

\* lines 194-195: join returns for a process that has ended, either way
CvJoin ==
    /\ cv_main = "join"
    /\ \A w \in Converters : cv_pc[w] \in {"exited", "dead"}
    /\ cv_main' = "wait"
    /\ UNCHANGED <<cv_queue, cv_unsuccessful, cv_pc, cv_file, cv_raises, cv_converted,
                   cv_list, cv_printed>>
    /\ CvRest

\* lines 197-198: while not task_queue.empty(): pass
CvWait ==
    /\ cv_main = "wait"
    /\ cv_queue = <<>>
    /\ cv_main' = "drain"
    /\ UNCHANGED <<cv_queue, cv_unsuccessful, cv_pc, cv_file, cv_raises, cv_converted,
                   cv_list, cv_printed>>
    /\ CvRest

\* lines 200-201: the unsuccessful queue is emptied into unsuccessful_list
CvDrain ==
    /\ cv_main = "drain"
    /\ cv_list' = cv_list \o cv_unsuccessful
    /\ cv_unsuccessful' = <<>>
    /\ cv_main' = "report"
    /\ UNCHANGED <<cv_queue, cv_pc, cv_file, cv_raises, cv_converted, cv_printed>>
    /\ CvRest

\* lines 214-219
CvReport ==
    /\ cv_main = "report"
    /\ cv_printed' = IF Len(cv_list) > 0 THEN cv_list ELSE <<"all">>
    /\ cv_main' = "done"
    /\ UNCHANGED <<cv_queue, cv_unsuccessful, cv_pc, cv_file, cv_raises, cv_converted, cv_list>>
    /\ CvRest

CvWorker(w) == CvGet(w) \/ CvConvert(w) \/ CvExcept(w)
CvMain == CvJoin \/ CvWait \/ CvDrain \/ CvReport

CvIdle ==
    /\ cv_main = "idle" /\ cv_queue = <<>> /\ cv_unsuccessful = <<>>
    /\ cv_pc = [w \in Converters |-> "idle"]
    /\ cv_file = [w \in Converters |-> 0]
    /\ cv_raises = {} /\ cv_converted = {} /\ cv_list = <<>> /\ cv_printed = <<>>

----------------------------------------------------------------------------
(* Specifications *)

\* process_dir, sequential or parallel
LateIdle == AngIdle /\ CvIdle
AuxIdle == TxtIdle /\ PpIdle /\ CatIdle /\ BxIdle /\ LateIdle

Init == BatchInit /\ ArIdle /\ DbIdle /\ SegIdle /\ AuxIdle
Next == Main \/ \E w \in Workers : Worker(w)
Spec == Init /\ [][Next]_vars

\* process_dir with every process scheduled again and again
FairSpec ==
    /\ Spec
    /\ WF_vars(Main)
    /\ \A w \in Workers : WF_vars(Worker(w))

\* AnnualReturn(doc_dir), or one page constructor called alone
InitPage ==
    /\ BatchIdle /\ DbIdle /\ SegIdle /\ AuxIdle
    /\ ar_mode \in {"doc", "page"}
    /\ ar_npages \in 0..MaxPages
    /\ ar_pos \in Positions
    /\ ar_mode = "doc" => ar_pos = 1
    /\ ar_mode = "page" => ar_npages = 1
    /\ ar_pc = "next"
    /\ ar_in = NoInput
    /\ ar_pages = [k \in Positions |-> NotBuilt]
    /\ ar_result = NoARResult
NextPage == ARMissingPage \/ PageStart \/ PageBind \/ ARAdvance \/ DbStep
SpecPage == InitPage /\ [][NextPage]_vars

\* detect_boxes called with any flags
InitDetect ==
    /\ BatchIdle /\ ArIdle /\ SegIdle /\ AuxIdle
    /\ db_flags \in Flags
    /\ db_stack = <<Frame(db_flags, 0)>>
    /\ db_angles \in AngleVectors
    /\ db_runs = 0 /\ db_estimates = 0 /\ db_rotations = 0
    /\ db_result = NoResult
NextDetect == DbStep
SpecDetect == InitDetect /\ [][NextDetect]_vars

\* ocr_segmented_box on a crop
InitSeg ==
    /\ BatchIdle /\ ArIdle /\ DbIdle /\ AuxIdle
    /\ seg_pc = "start"
    /\ seg_length \in 1..MaxWidth
    /\ seg_contours \in 0..MaxContours
    /\ seg_left_x \in {ArtifactX - 1, ArtifactX}
    /\ seg_cells = <<>>
    /\ seg_result = "unset"
    /\ seg_type = "number" /\ seg_single = FALSE
    /\ seg_ocr \in {Reading(<<"7">>, 0, <<>>)}
    /\ seg_list = <<>> /\ seg_string = <<>>
NextSeg == SegSplit \/ SegRecognise
SpecSeg == InitSeg /\ [][NextSeg]_vars

\* ocr_segmented_box on a crop wide enough for its cells, with the texts read
InitCells ==
    /\ BatchIdle /\ ArIdle /\ DbIdle /\ AuxIdle
    /\ seg_pc = "start"
    /\ seg_length = MaxWidth
    /\ seg_contours \in 0..MaxContours
    /\ seg_left_x \in {ArtifactX - 1, ArtifactX}
    /\ seg_cells = <<>>
    /\ seg_result = "unset"
    /\ seg_type \in {"number", "letter"} /\ seg_single \in BOOLEAN
    /\ seg_ocr \in {Reading(base, at, other) :
                        base \in CellTexts, at \in {0, TypeSwitch}, other \in CellTexts}
    /\ seg_list = <<>> /\ seg_string = <<>>
SpecCells == InitCells /\ [][NextSeg]_vars


\* a cleaner, or the binding of a field, on a string
InitClean ==
    /\ BatchIdle /\ ArIdle /\ DbIdle /\ SegIdle /\ PpIdle /\ CatIdle /\ BxIdle /\ LateIdle
    /\ txt_pc = "call"
    /\ txt_out = <<>>
    /\ txt_n = 0
    /\ \/ txt_fn = "clean_number" /\ txt_type \in {"number", "contact"}
          /\ txt_in \in NumberInputs
       \/ txt_fn = "clean_single_character" /\ txt_type \in {"number", "letter"}
          /\ txt_in \in Strings(NumberChars, MaxText)
       \/ txt_fn = "clean_hkid" /\ txt_type = "none" /\ txt_in \in HkidInputs
       \/ txt_fn = "clean_alphabet" /\ txt_type = "none" /\ txt_in \in AlphabetInputs
       \/ txt_fn = "check_empty" /\ txt_type = "none" /\ txt_in \in AlphabetInputs
       \/ txt_fn \in FieldNames /\ txt_type = "none" /\ txt_in \in OcrTexts
       \/ txt_fn = "presentors" /\ txt_type = "none" /\ txt_in \in Blocks
NextClean ==
    \/ CleanNumber \/ CleanSingleCharacter \/ CleanHkid \/ CleanAlphabet
    \/ StoreField \/ SearchPresentors \/ CheckEmpty
SpecClean == InitClean /\ [][NextClean]_vars

\* separate_text on the text of a column
InitSeparate ==
    /\ BatchIdle /\ ArIdle /\ DbIdle /\ SegIdle /\ PpIdle /\ CatIdle /\ BxIdle /\ LateIdle
    /\ txt_pc = "call"
    /\ txt_out = <<>>
    /\ txt_fn = "separate_text"
    /\ txt_type \in {"none", "letter", "number"}
    /\ txt_n \in SpaceCounts
    /\ txt_in \in ColumnTexts
NextSeparate == SeparateText
SpecSeparate == InitSeparate /\ [][NextSeparate]_vars


\* AnnualReturn.__init__ on the listing of a document directory
InitPaths ==
    /\ BatchIdle /\ ArIdle /\ DbIdle /\ SegIdle /\ TxtIdle /\ CatIdle /\ BxIdle /\ LateIdle
    /\ pp_pc = "list"
    /\ pp_listing \in Listings
    /\ pp_paths = <<>>
    /\ pp_pages = NoPages
NextPaths == SortPagePaths \/ BindPages
SpecPaths == InitPaths /\ [][NextPaths]_vars

\* dir_categorize(parallel=True) after the threads are started (lines 360-373)
InitCategorize ==
    /\ BatchIdle /\ ArIdle /\ DbIdle /\ SegIdle /\ TxtIdle /\ PpIdle /\ BxIdle /\ LateIdle
    /\ cat_main = "join"
    /\ cat_cwd = "base"
    /\ \E n \in 1..MaxCatDocs :
          /\ cat_queue = [i \in 1..(n + NUMBER_OF_THREADS) |-> IF i <= n THEN i ELSE STOP]
          /\ cat_loc = [d \in 1..n |-> "source"]
          /\ cat_moves = [d \in 1..n |-> 0]
          /\ cat_failed = [d \in 1..n |-> "no"]
    /\ cat_pc = [t \in Threads |-> "get"]
    /\ cat_doc = [t \in Threads |-> 0]
    /\ cat_saved = [t \in Threads |-> "base"]
    /\ cat_made \in [{"base", "dir"} -> {"none"}]
    /\ cat_overlap = FALSE
NextCategorize == CatJoin \/ \E t \in Threads : CatThread(t)
SpecCategorize == InitCategorize /\ [][NextCategorize]_vars

\* a page constructor after findContours
InitBoxes ==
    /\ BatchIdle /\ ArIdle /\ DbIdle /\ SegIdle /\ TxtIdle /\ PpIdle /\ CatIdle /\ LateIdle
    /\ bx_pc = "contours"
    /\ bx_page \in 1..5
    /\ bx_contours \in ContourLists
    /\ bx_info = <<>> /\ bx_sorted = <<>> /\ bx_top = <<>>
NextBoxes == GetBoxesInfo \/ TakeLargest \/ OrderByPosition
SpecBoxes == InitBoxes /\ [][NextBoxes]_vars

\* calculate_angle after HoughLinesP
InitAngle ==
    /\ BatchIdle /\ ArIdle /\ DbIdle /\ SegIdle /\ TxtIdle /\ PpIdle /\ CatIdle /\ BxIdle
    /\ CvIdle
    /\ ang_pc = "call"
    /\ ang_lines \in HoughLines
    /\ ang_out = SkewAngle(0, 1)
NextAngle == CalculateAngle
SpecAngle == InitAngle /\ [][NextAngle]_vars

\* dir_convert(parallel=True) after the processes are started (lines 179-192)
InitConvert ==
    /\ BatchIdle /\ ArIdle /\ DbIdle /\ SegIdle /\ TxtIdle /\ PpIdle /\ CatIdle /\ BxIdle
    /\ AngIdle
    /\ cv_main = "join"
    /\ \E n \in 0..MaxPdfs :
          /\ cv_queue = [i \in 1..(n + CONVERT_PROCESSES) |-> IF i <= n THEN i ELSE STOP]
          /\ cv_raises \in SUBSET (1..n)
    /\ cv_unsuccessful = <<>>
    /\ cv_pc = [w \in Converters |-> "get"]
    /\ cv_file = [w \in Converters |-> 0]
    /\ cv_converted = {} /\ cv_list = <<>> /\ cv_printed = <<>>
NextConvert == CvMain \/ \E w \in Converters : CvWorker(w)
SpecConvert == InitConvert /\ [][NextConvert]_vars
\* every process that can take a step takes one
FairSpecConvert ==
    /\ SpecConvert
    /\ WF_vars(CvMain)
    /\ \A w \in Converters : WF_vars(CvWorker(w))

----------------------------------------------------------------------------
(* Claims about process_dir *)

\* the entries a document has on the result side and on the failure side
DoneEntries(d) ==
    Cardinality({i \in DOMAIN done_queue : done_queue[i].doc = d})
        + Cardinality({i \in DOMAIN doc_data_list : doc_data_list[i].doc = d})
FailedEntries(d) ==
    Cardinality({i \in DOMAIN failed_queue : failed_queue[i][1] = d})
        + Cardinality({i \in DOMAIN failed_list : failed_list[i][1] = d})
AllRecords ==
    /\ \A i \in DOMAIN done_queue : done_queue[i].kind = "record"
    /\ \A i \in DOMAIN doc_data_list : doc_data_list[i].kind = "record"
Joined == mainpc \in {"drain_done", "drain_failed", "build", "done", "raised"}

\* C1: in parallel mode every document put on the task queue is read by at most
\* one worker, and by exactly one once the workers are joined; a document that
\* was processed has exactly one entry, a record on the result side or a
\* (directory, traceback) pair on the failure side, never both and never two; a
\* document not yet processed has none; a worker leaves its loop only by
\* reading 'STOP', so a document that raises stops no worker.
Theorem_C1 ==
    parallel =>
        /\ \A d \in Docs :
              /\ Len(taken[d]) <= 1
              /\ outcome[d] = "pending" => DoneEntries(d) = 0 /\ FailedEntries(d) = 0
              /\ outcome[d] = "record" => DoneEntries(d) = 1 /\ FailedEntries(d) = 0
              /\ outcome[d] \in {"raise", "none"} =>
                     DoneEntries(d) = 0 /\ FailedEntries(d) = 1
              /\ Joined => Len(taken[d]) = 1 /\ outcome[d] # "pending"
        /\ AllRecords
        /\ \A w \in Workers :
              /\ wpc[w] = "exited" => stops[w] = 1
              /\ wpc[w] = "work" => wdoc[w] \in Docs /\ outcome[wdoc[w]] = "pending"

\* C1 happens: a worker's document raised, the same worker then took a later
\* document and produced its record, and all workers were joined
Witness_C1 ==
    /\ parallel /\ Joined
    /\ \E d1 \in Docs, d2 \in Docs :
          /\ d1 < d2
          /\ taken[d1] = taken[d2]
          /\ outcome[d1] = "raise" /\ outcome[d2] = "record"
          /\ FailedEntries(d1) = 1 /\ DoneEntries(d2) = 1

\* C2: a batch run ends with its two outputs: every state is either the
\* returned pair (data_df, failed_df) or has a step to take; and once the
\* workers are joined each has read exactly one 'STOP' and the task queue
\* holds neither task nor sentinel.
Claim_C2 ==
    /\ (mainpc = "done" /\ ret.kind = "return") \/ ENABLED Next
    /\ (parallel /\ Joined) =>
           /\ task_queue = <<>>
           /\ \A w \in Workers : wpc[w] = "exited" /\ stops[w] = 1

\* the part of C2 that holds: in parallel mode process_dir returns
ParallelReturns == parallel ~> (mainpc = "done" /\ ret.kind = "return")

\* the part of C2 that holds: a joined pool has drained the task queue
JoinedDrained ==
    (parallel /\ Joined) =>
        /\ task_queue = <<>>
        /\ \A w \in Workers : wpc[w] = "exited" /\ stops[w] = 1

\* C4: a document for which a page constructor raised has no doc_data and
\* no entry among the records; it has one failure entry, process_dir does not
\* raise because of it, and the returned failure output lists it while the
\* returned records do not.
Theorem_C4 ==
    \A d \in Docs :
        page_raised[d] =>
            /\ outcome[d] = "raise"
            /\ DoneEntries(d) = 0
            /\ FailedEntries(d) = 1
            /\ mainpc # "raised"
            /\ mainpc = "done" =>
                   /\ ret.kind = "return"
                   /\ d \in ret.failed_df
                   /\ d \notin ret.data_df

\* C4 happens: a page constructor raised for one document, another document
\* gave a record, and process_dir returned with the first among the failures
Witness_C4 ==
    /\ mainpc = "done"
    /\ \E d \in Docs, e \in Docs :
          /\ page_raised[d] /\ d \in ret.failed_df
          /\ outcome[e] = "record" /\ e \in ret.data_df

\* the two lists are complete
ListsFinal == mainpc \in {"build", "done", "raised"}
InRecords(d) == \E i \in DOMAIN doc_data_list : doc_data_list[i].doc = d
InFailures(d) == \E i \in DOMAIN failed_list : failed_list[i][1] = d
Outcome(d) == [kind |-> outcome[d], doc_data |-> NoDocData]

\* C30: for the same documents and the same outcomes of process_doc_dir the
\* sequential and the parallel mode put the same documents among the
\* successful records and the same among the failures, a document without
\* a record included: where the run put a document is where the loop body
\* of either mode puts it.
Claim_C30 ==
    ListsFinal =>
        \A d \in Docs :
            /\ InRecords(d) <=> Len(WorkerPuts(d, Outcome(d)).done) = 1
            /\ InRecords(d) <=> Len(SequentialPuts(d, Outcome(d)).done) = 1
            /\ InFailures(d) <=> Len(WorkerPuts(d, Outcome(d)).failed) = 1
            /\ InFailures(d) <=> Len(SequentialPuts(d, Outcome(d)).failed) = 1

\* the two modes agree on a document with a record and on one that raised
ModesAgreeOnRecordAndRaise ==
    ListsFinal =>
        \A d \in Docs :
            /\ outcome[d] = "record" => InRecords(d) /\ ~InFailures(d)
            /\ outcome[d] = "raise" => InFailures(d) /\ ~InRecords(d)

\* a document without a record is a failure in parallel mode and an entry
\* of doc_data_list in sequential mode
NoRecordByMode ==
    ListsFinal =>
        \A d \in Docs :
            outcome[d] = "none" =>
                IF parallel THEN InFailures(d) /\ ~InRecords(d)
                ELSE InRecords(d) /\ ~InFailures(d)

----------------------------------------------------------------------------
(* Claims about AnnualReturn and its page constructors *)

\* the page whose constructor has just run, and what it did
Built == ar_pc = "built"
Page == ar_pages[ar_pos]

\* one list of one string for every (page, field) pair of the five pages
CompleteDocData(dd) ==
    /\ DOMAIN dd = {c \in {PageName(k) : k \in Positions} \X AllFields :
                       \E k \in Positions : c[1] = PageName(k) /\ c[2] \in Fields(k)}
    /\ \A c \in DOMAIN dd : dd[c] = <<"str">>

\* C3: with at least eight page images, constructing AnnualReturn raises only
\* where a page has too few boxes or grid lines for its bindings, and when it
\* does not raise doc_data holds exactly one string for every (page, field)
\* pair of the five pages.
Claim_C3 ==
    (ar_mode = "doc" /\ ar_pc = "done" /\ ar_npages >= 8) =>
        /\ ar_result.raised => ar_pages[ar_result.at].site \in {"boxes", "grid"}
        /\ ~ar_result.raised => CompleteDocData(ar_result.doc_data)

\* C5: on an empty box list each of the five page constructors raises, and
\* the page has no page_data.
Theorem_C5 ==
    (Built /\ ar_in.n = 0) =>
        /\ Page.raised
        /\ Page.exc = "IndexError"
        /\ Page.page_data = NoData

\* C5 happens: each of the five constructors is reached with an empty box list;
\* here the last of them, PageEight, built on its own
Witness_C5 ==
    /\ Built /\ ar_mode = "page" /\ ar_pos = Len(PageSeq)
    /\ ar_in.n = 0 /\ Page.raised

\* the fewest boxes each page's bindings index: boi[4:][:2] of PageOne,
\* small_boxes[1] of PageTwo, boi[24] of PageThree, boi[14:16][1] of PageFour,
\* the largest box of PageEight
MinBoxes(k) ==
    CASE k = 1 -> 6 [] k = 2 -> 3 [] k = 3 -> 25 [] k = 4 -> 16 [] k = 5 -> 1

\* C6, as the code has it: a page constructor raises an IndexError, or the
\* ValueError of PageOne's two-name unpacking, and gives no page_data when the
\* box list has fewer boxes than its bindings index (6 for PageOne, 3 for
\* PageTwo, 25 for PageThree, 16 for PageFour, 1 for PageEight); with that many
\* boxes or more, no binding from the box list raises.
Theorem_C6 ==
    Built =>
        /\ ar_in.n < MinBoxes(ar_pos) =>
               /\ Page.raised
               /\ Page.exc \in {"IndexError", "ValueError"}
               /\ Page.site \in {"boxes", "grid"}
               /\ Page.page_data = NoData
        /\ ar_in.n >= MinBoxes(ar_pos) => Page.site # "boxes"

\* C6 happens: PageOne is given seven boxes, one fewer than the eight it
\* keeps, and binds its fields from them
Witness_C6 ==
    /\ Built /\ ar_pos = 1 /\ ar_in.n = TopK(1) - 1
    /\ ~Page.raised /\ Page.page_data = PageData(1)

\* C6 as stated: with fewer boxes than the page's top-K the constructor raises
Original_C6 ==
    (Built /\ ar_pos \in 1..4 /\ ar_in.n < TopK(ar_pos)) => Page.raised

\* C9: detect_boxes returns the mask of the unrotated image exactly when the
\* estimate lies in [-0.15, 0.15], bounds included, and of the image rotated
\* once otherwise; the page constructor rotates the image it crops from if and
\* only if the mask was detected on a rotated image.
Theorem_C9 ==
    Built =>
        /\ db_result.kind = "pair"
        /\ db_result.skew_angle = db_angles[1]
        /\ db_result.mask_rot = 0 <=> (db_angles[1] >= -15 /\ db_angles[1] <= 15)
        /\ db_result.mask_rot \in {0, 1}
        /\ Page.rotated <=> db_result.mask_rot = 1

\* C9 happens: an estimate of exactly 0.15 degrees leaves mask and crop unrotated
Witness_C9 ==
    /\ Built /\ db_angles[1] = 15
    /\ db_result.mask_rot = 0 /\ ~Page.rotated

----------------------------------------------------------------------------
(* Claims about detect_boxes and process_image *)

Returned == db_stack = <<>> /\ db_result.kind # "none"

\* C7: for every combination of the flags and every estimated skew,
\* detect_boxes returns a skew angle together with a mask, and process_image
\* does not raise on what detect_boxes returns.
Claim_C7 ==
    Returned =>
        /\ db_result.kind = "pair"
        /\ ~ProcessImage(db_result).raised

\* C8: one call of detect_boxes runs the detection at most twice, estimates
\* the skew at most once and rotates at most once; the call it makes on the
\* rotated image has align False and makes no further call.
Theorem_C8 ==
    /\ db_runs <= 2
    /\ db_estimates <= 1
    /\ db_rotations <= 1
    /\ Len(db_stack) <= 2
    /\ \A i \in 2..Len(db_stack) : ~db_stack[i].align /\ ~db_stack[i].skew_bound
    /\ db_rotations = 1 => db_flags.align /\ OutOfTolerance(db_angles[1])

\* C8 happens: the rotated image is still skewed beyond the tolerance, and the
\* call returns after two detections, one estimate and one rotation
Witness_C8 ==
    /\ Returned /\ db_result.kind = "pair" /\ db_result.mask_rot = 1
    /\ OutOfTolerance(db_angles[2])
    /\ db_runs = 2 /\ db_estimates = 1 /\ db_rotations = 1

----------------------------------------------------------------------------
(* Claims about ocr_segmented_box *)

Width(cell) == cell[2] - cell[1]
Split == seg_pc \in {"cells", "done"} /\ seg_cells # <<>>

SegReturned == seg_pc = "done" /\ seg_result # "raised"
CellCount == IF seg_left_x < ArtifactX THEN seg_contours - 1 ELSE seg_contours
Spaces(str) == Cardinality({i \in DOMAIN str : str[i] = " "})

Within(str, class) == \A i \in DOMAIN str : str[i] \in class
Order(i) == i - 1
Alnum(order) == Keep(CellText(seg_ocr, order), Letter \cup Digit)

\* C24: every cell but the cell of order 6 is corrected by data_type, for
\* single and not single: a 'letter' cell gives uppercase letters only, a
\* 'number' cell digits only; the cell of order 6 gives letters and digits
\* and, when these hold no uppercase letter, at most one digit.
Claim_C24 ==
    (SegReturned /\ seg_result = "joined") =>
        \A i \in DOMAIN seg_list :
            IF Order(i) # TypeSwitch
            THEN /\ seg_type = "letter" => Within(seg_list[i], UpperCase)
                 /\ seg_type = "number" => Within(seg_list[i], Digit)
            ELSE /\ Within(seg_list[i], Letter \cup Digit)
                 /\ ~(\E k \in DOMAIN Alnum(Order(i)) : Alnum(Order(i))[k] \in UpperCase) =>
                        Within(seg_list[i], Digit) /\ Len(seg_list[i]) <= 1

\* with single the cells are as C24 has them, one character at most
SingleCells ==
    (SegReturned /\ seg_result = "joined" /\ seg_single) =>
        \A i \in DOMAIN seg_list :
            IF Order(i) # TypeSwitch
            THEN /\ seg_type = "letter" => Within(seg_list[i], UpperCase)
                 /\ seg_type = "number" => Within(seg_list[i], Digit)
                 /\ Len(seg_list[i]) <= 1
            ELSE /\ Within(seg_list[i], Letter \cup Digit)
                 /\ ~(\E k \in DOMAIN Alnum(Order(i)) : Alnum(Order(i))[k] \in UpperCase) =>
                        Within(seg_list[i], Digit) /\ Len(seg_list[i]) <= 1

\* without single every cell but the cell of order 6 gives digits or 'None',
\* whatever data_type is
DigitsOrNone ==
    (SegReturned /\ seg_result = "joined" /\ ~seg_single) =>
        \A i \in DOMAIN seg_list :
            Order(i) # TypeSwitch =>
                \/ seg_list[i] = SentinelNone
                \/ seg_list[i] # <<>> /\ Within(seg_list[i], Digit)

----------------------------------------------------------------------------
(* Claims about the cleaners of string_processing *)

Cleaned(fn) == txt_pc = "done" /\ txt_fn = fn
OrNone(str) == IF str = <<>> THEN SentinelNone ELSE str
AllDigits(str) == \A i \in DOMAIN str : str[i] \in Digit

\* every confusable character replaced by its digit, then the digits kept
DigitOf(c) ==
    CASE c \in {"O", "o"} -> "0"
      [] c \in OneLike -> "1"
      [] c \in {"S", "s"} -> "5"
      [] OTHER -> c
Corrected(str) == Keep([i \in DOMAIN str |-> DigitOf(str[i])], Digit)

\* C11: numeric cleaning gives the digits of the string (up to its first '.'
\* for clean_number) after each of O, o has become 0, each of I, i, l, !, |,
\* [, ] has become 1 and each of S, s has become 5: all of them for
\* clean_number with data_type 'number', the first of them for
\* clean_single_character.
Claim_C11 ==
    /\ (Cleaned("clean_number") /\ txt_type = "number") =>
           txt_out = OrNone(Corrected(UpTo(txt_in, ".")))
    /\ (Cleaned("clean_single_character") /\ txt_type = "number") =>
           txt_out = Take(Corrected(txt_in), 1)

\* C12: clean_number returns a clean digit string unchanged: any non-empty
\* string of digits with data_type 'number', any string of exactly 8 digits
\* with data_type 'contact'.
Claim_C12 ==
    (Cleaned("clean_number") /\ txt_in # <<>> /\ AllDigits(txt_in)) =>
        /\ txt_type = "number" => txt_out = txt_in
        /\ (txt_type = "contact" /\ Len(txt_in) = 8) => txt_out = txt_in

\* the digits clean_number extracts, and those left after one leading country
\* code is stripped from them
Extracted(str) == Keep(Confusables(UpTo(str, ".")), Digit)
LeadingCode(digits) ==
    IF Take(digits, 3) = <<"8", "5", "2">> THEN 3
    ELSE IF Take(digits, 4) = <<"0", "8", "5", "2">> THEN 4
    ELSE 0
Local(str) == Drop(Extracted(str), LeadingCode(Extracted(str)))

\* C13: clean_number with data_type 'contact' returns the first 8 of the
\* digits that remain after one leading '852' or '0852' is stripped from the
\* extracted digits, or 'None' when fewer than 8 remain: the result is
\* 'None' or 8 digits, never a digit string of another length.
Theorem_C13 ==
    (Cleaned("clean_number") /\ txt_type = "contact") =>
        /\ txt_out = SentinelNone \/ (Len(txt_out) = 8 /\ AllDigits(txt_out))
        /\ txt_out = SentinelNone <=> Len(Local(txt_in)) < 8
        /\ Len(Local(txt_in)) >= 8 =>
               \A i \in 1..8 : txt_out[i] = Local(txt_in)[i]

\* C13 happens: of '852' followed by '0852' and eight more digits only the
\* first code is stripped, and the first 8 of the remaining digits are returned
Witness_C13 ==
    /\ Cleaned("clean_number") /\ txt_type = "contact"
    /\ txt_in = <<"8", "5", "2", "0", "8", "5", "2">> \o Rep("7", 8)
    /\ txt_out = <<"0", "8", "5", "2", "7", "7", "7", "7">>

\* C14: clean_hkid returns the uppercase letters and digits of its input with
\* the last of them in parentheses, and 'None' when fewer than 7 are left.
Claim_C14 ==
    Cleaned("clean_hkid") =>
        LET kept == Keep(txt_in, UpperCase \cup Digit)
            n == Len(kept)
        IN  IF n < 7 THEN txt_out = SentinelNone
            ELSE txt_out = SubSeq(kept, 1, n - 1) \o <<"(", kept[n], ")">>

\* the tokens of a string: the runs of letters between the characters of
\* white, every character that is neither a letter nor in white removed
Tokens(str, white) ==
    LET kept == Keep(str, Letter \cup white)
    IN  SelectSeq(SplitOn(SubClass(kept, white, " "), " "), LAMBDA t : t # <<>>)
Tokenised(tokens) ==
    IF \A i \in DOMAIN tokens : Len(tokens[i]) < 3 THEN SentinelNone
    ELSE Join(tokens, <<" ">>)

\* C15, as the code has it: clean_alphabet removes every character that is
\* not a letter, a space or a newline (a tab is removed, and joins the letters
\* on its two sides), and splits the rest at spaces and newlines; it returns
\* 'None' when every token has fewer than 3 letters, also when there is no
\* token, and otherwise all tokens, short ones included, joined by single
\* spaces.
Theorem_C15 ==
    Cleaned("clean_alphabet") => txt_out = Tokenised(Tokens(txt_in, {" ", "\n"}))

\* C15 happens: a token of one letter is returned next to one of three
Witness_C15 ==
    /\ Cleaned("clean_alphabet")
    /\ txt_in = <<"a", "\n", "a", "a", "a">>
    /\ txt_out = <<"a", " ", "a", "a", "a">>

\* C15 as stated: every whitespace character separates tokens
Original_C15 ==
    Cleaned("clean_alphabet") => txt_out = Tokenised(Tokens(txt_in, Whitespace))

\* C17: a stored field value is never the empty string, and it is 'None'
\* when the text of its region is empty, whitespace only or 'N/A'.
Claim_C17 ==
    (txt_pc = "done" /\ txt_fn \in FieldNames) =>
        /\ txt_out # <<>>
        /\ (Strip(txt_in) = <<>> \/ txt_in = <<"N", "/", "A">>) => txt_out = SentinelNone

\* C26: clean_alphabet, check_empty and clean_hkid return their own output
\* unchanged, f(f(s)) = f(s), and each returns 'None' for 'None'.
Theorem_C26 ==
    /\ Cleaned("clean_alphabet") => clean_alphabet(txt_out) = txt_out
    /\ Cleaned("check_empty") => check_empty(txt_out) = txt_out
    /\ Cleaned("clean_hkid") => clean_hkid(txt_out) = txt_out
    /\ clean_alphabet(SentinelNone) = SentinelNone
    /\ check_empty(SentinelNone) = SentinelNone
    /\ clean_hkid(SentinelNone) = SentinelNone

\* C26 happens: clean_hkid has put the last character of 'A111111' in
\* parentheses, and cleaning 'A11111(1)' gives 'A11111(1)' again
Witness_C26 ==
    /\ Cleaned("clean_hkid")
    /\ txt_in = <<"A", "1", "1", "1", "1", "1", "1">>
    /\ txt_out = <<"A", "1", "1", "1", "1", "1", "(", "1", ")">>
    /\ clean_hkid(txt_out) = txt_out

----------------------------------------------------------------------------
(* Claims about separate_text *)

Separated == Cleaned("separate_text")
\* s with its newlines turned into spaces and its ends trimmed
Trimmed == Strip(SubClass(txt_in, {"\n"}, " "))
\* the same without the characters outside [a-zA-Z,\-0-9\s.]
Prepared == Keep(Trimmed, Letter \cup Digit \cup Whitespace \cup {",", "-", "."})
Blank(str) == \A i \in DOMAIN str : str[i] \in Whitespace

\* the maximal runs of whitespace of str that have n characters or more
LongRuns(str, n) ==
    {r \in (DOMAIN str) \X (DOMAIN str) :
        /\ r[1] <= r[2] /\ r[2] - r[1] + 1 >= n
        /\ \A k \in r[1]..r[2] : str[k] \in Whitespace
        /\ r[1] > 1 => str[r[1] - 1] \notin Whitespace
        /\ r[2] < Len(str) => str[r[2] + 1] \notin Whitespace}
\* those with text on both sides
InnerLongRuns(str, n) == {r \in LongRuns(str, n) : r[1] > 1 /\ r[2] < Len(str)}

\* nothing is left between the separators
NoEntry(str, n) == str = <<>> \/ (Blank(str) /\ Len(str) >= n)
EntriesOf(out) == SplitOn(out, ";")
\* the entries before their cleaning
RawEntries ==
    IF NoEntry(Prepared, txt_n) THEN <<>>
    ELSE EntriesOf(separate_text(txt_in, txt_n, "none"))

\* C25, as the code has it: separate_text(s, nSpaces=N) turns newlines into
\* spaces, trims the ends, then removes the characters outside
\* [a-zA-Z,\-0-9\s.], and in what is left treats every run of N or more
\* whitespace characters as a separator and no shorter run as one.  The
\* result is the non-empty entries joined by ';', with no empty entry and
\* no leading or trailing ';', each entry cleaned per data_type, an entry
\* containing 'nil' becoming 'None', and 'None' when no entry remains.
Theorem_C25 ==
    Separated =>
        LET E == EntriesOf(txt_out)
        IN  /\ txt_out # <<>>
            /\ NoEntry(Prepared, txt_n) => txt_out = SentinelNone
            /\ \A i \in DOMAIN E : E[i] # <<>>
            /\ (txt_type = "none" /\ ~NoEntry(Prepared, txt_n)) =>
                  /\ Len(E) = Cardinality(InnerLongRuns(Prepared, txt_n)) + 1
                  /\ \A i \in DOMAIN E : LongRuns(E[i], txt_n) = {}
                  /\ Keep(txt_out, Letter \cup Digit) = Keep(txt_in, Letter \cup Digit)
            /\ (txt_type # "none" /\ ~NoEntry(Prepared, txt_n)) =>
                  /\ Len(E) = Len(RawEntries)
                  /\ \A i \in DOMAIN E :
                        /\ HasNil(RawEntries[i]) => E[i] = SentinelNone
                        /\ (txt_type = "letter" /\ ~HasNil(RawEntries[i])) =>
                               E[i] = clean_alphabet(RawEntries[i])
                        /\ (txt_type = "number" /\ ~HasNil(RawEntries[i])) =>
                               E[i] = clean_number(RawEntries[i], "number")
                        /\ \/ E[i] = SentinelNone
                           \/ txt_type = "letter" /\ Within(E[i], Letter \cup {" "})
                           \/ txt_type = "number" /\ Within(E[i], Digit)

\* C25 happens: two newlines separate 'aaa' from '17' with nSpaces = 2, and
\* as numbers the entries are 'None' and '17'
Witness_C25 ==
    /\ Separated
    /\ txt_in = <<"a", "a", "a", "\n", "\n", "1", "7">>
    /\ txt_n = 2 /\ txt_type = "number"
    /\ txt_out = <<"N", "o", "n", "e", ";", "1", "7">>

\* C25 as stated: the separators are the runs of N or more whitespace
\* characters of s itself, newlines as spaces and the ends trimmed
Original_C25 ==
    (Separated /\ txt_type = "none" /\ ~NoEntry(Prepared, txt_n)) =>
        LET E == EntriesOf(txt_out)
        IN  /\ Len(E) = Cardinality(InnerLongRuns(Trimmed, txt_n)) + 1
            /\ \A i \in DOMAIN E : Strip(E[i]) = E[i]

\* C27: separate_text applied to its own output, with the same nSpaces and
\* data_type, returns that output, with the same entries.
Claim_C27 ==
    Separated => separate_text(txt_out, txt_n, txt_type) = txt_out

\* an output of one entry is returned as it is
OneEntryAgain ==
    (Separated /\ Len(EntriesOf(txt_out)) = 1 /\ txt_type # "none") =>
        separate_text(txt_out, txt_n, txt_type) = txt_out

----------------------------------------------------------------------------
(* Claims about the presentor block *)

\* the positions of the five labels when each occurs and they occur in order
FirstLabel(block, a) ==
    CHOOSE i \in DOMAIN block : block[i] = Labels[a] /\ \A k \in 1..(i - 1) : block[k] # Labels[a]
HasLabel(block, a) == \E i \in DOMAIN block : block[i] = Labels[a]
InOrder(block) ==
    /\ \A a \in 1..5 : HasLabel(block, a)
    /\ \A a \in 1..4 : FirstLabel(block, a) < FirstLabel(block, a + 1)

\* the text between a label and the next anchor's label
OwnText(block, a) == SubSeq(block, FirstLabel(block, a) + 1, FirstLabel(block, a + 1) - 1)

\* C16: for a block that holds the five labels in order, the name, address,
\* telephone and fax extracted are each the text between the field's own label
\* and the label of the next anchor, also when an anchor word occurs again in a
\* later field; a field whose label or whose next label is missing is 'None'.
Claim_C16 ==
    Cleaned("presentors") =>
        \A a \in 1..4 :
            /\ InOrder(txt_in) => txt_out[a] = OwnText(txt_in, a)
            /\ (~HasLabel(txt_in, a) \/ ~HasLabel(txt_in, a + 1)) =>
                   txt_out[a] = <<"None">>

\* the block of the example yields the fields of the example
ExampleExtracted ==
    (Cleaned("presentors") /\ txt_in = Example) =>
        txt_out = <<<<"John", "Smith">>, <<"1", "Main", "St">>, <<"12345678">>,
                    <<"23456789">>, <<"a@b.com">>>>

----------------------------------------------------------------------------
(* Claims about the page paths *)

\* the page number embedded in a file name: all its digits, as a number
PageNumber(name) == IntOf(SelectSeq(name, IsNumeral))
Images == SelectSeq(pp_listing, IsJpg)
Position(list, name) == CHOOSE i \in DOMAIN list : list[i] = name
Before(list, a, b) ==
    /\ \E i \in DOMAIN list : list[i] = a
    /\ \E i \in DOMAIN list : list[i] = b
    /\ Position(list, a) < Position(list, b)

\* C18, as the code has it: page_paths holds the .jpg files of the listing
\* ordered by the number that the first one or two digits of the file name
\* make, files of equal key in listing order; that number is the page number
\* for page_1 .. page_99, so these are in page order whatever the listing
\* order, while page_100 has the key 10.  The five pages take the files at
\* sorted positions 1, 2, 3, 4 and 8, and with fewer than 8 images the
\* construction raises and binds nothing.
Theorem_C18 ==
    pp_pc = "bound" =>
        /\ Len(pp_paths) = Len(Images)
        /\ \A i \in DOMAIN Images : \E j \in DOMAIN pp_paths : pp_paths[j] = Images[i]
        /\ \A i, j \in DOMAIN pp_paths :
              i < j =>
                 /\ SortKey(pp_paths[i]) <= SortKey(pp_paths[j])
                 /\ SortKey(pp_paths[i]) = SortKey(pp_paths[j]) =>
                        Before(Images, pp_paths[i], pp_paths[j])
                 /\ (PageNumber(pp_paths[i]) < 100 /\ PageNumber(pp_paths[j]) < 100) =>
                        PageNumber(pp_paths[i]) < PageNumber(pp_paths[j])
        /\ \A i \in DOMAIN pp_paths :
              SortKey(pp_paths[i]) =
                  IF PageNumber(pp_paths[i]) < 100 THEN PageNumber(pp_paths[i])
                  ELSE PageNumber(pp_paths[i]) \div 10
        /\ pp_pages.raised <=> Len(Images) < 8
        /\ pp_pages.raised => pp_pages.pages = <<>>
        /\ ~pp_pages.raised =>
               pp_pages.pages = <<pp_paths[1], pp_paths[2], pp_paths[3], pp_paths[4], pp_paths[8]>>
        /\ (~pp_pages.raised /\ \A n \in 1..8 : \E i \in DOMAIN Images : Images[i] = PageFile(n)) =>
               pp_pages.pages = <<PageFile(1), PageFile(2), PageFile(3), PageFile(4), PageFile(8)>>

\* C18 happens: page_10 is listed before page_9 and sorted after it, and
\* the five pages take page_1, page_2, page_3, page_4 and page_8
Witness_C18 ==
    /\ pp_pc = "bound"
    /\ Before(pp_listing, PageFile(10), PageFile(9))
    /\ Before(pp_paths, PageFile(9), PageFile(10))
    /\ pp_pages.pages = <<PageFile(1), PageFile(2), PageFile(3), PageFile(4), PageFile(8)>>

\* C18 as stated: the files are ordered by their page numbers
Original_C18 ==
    pp_pc = "bound" =>
        \A i, j \in DOMAIN pp_paths :
            i < j => PageNumber(pp_paths[i]) < PageNumber(pp_paths[j])

----------------------------------------------------------------------------
(* Claims about dir_categorize *)

ThreadsEnded == cat_main = "done"
Categorized(d) == cat_loc[d] = "dest" /\ cat_moves[d] = 1 /\ cat_failed[d] = "no"

\* C19: when the threads of dir_categorize have ended, under every
\* interleaving, every source directory has been renamed exactly once into
\* the folder that a categorize call running alone chooses, and no task has
\* failed or left its directory unmoved because of another task's steps.
Claim_C19 ==
    ThreadsEnded =>
        /\ \A d \in CatDocs : Categorized(d)
        /\ \A t \in Threads : cat_pc[t] = "exited"

\* categorize calls that never overlap in time move every directory they are given
AloneCategorized ==
    ~cat_overlap =>
        /\ \A d \in CatDocs : cat_failed[d] = "no" /\ cat_moves[d] <= 1
        /\ \A t \in Threads : cat_pc[t] # "dead"
        /\ ThreadsEnded => \A d \in CatDocs : Categorized(d)

\* a directory is never renamed twice
RenamedAtMostOnce == \A d \in CatDocs : cat_moves[d] <= 1

----------------------------------------------------------------------------
(* Claims about the box list *)

BoxPosition(list, box) == CHOOSE i \in DOMAIN list : list[i] = box
LargestTaken == bx_pc \in {"largest", "positioned"}
SameBoxes(a, b) == Len(a) = Len(b) /\ BoxesOf(a) = BoxesOf(b)

\* C20: the list a page takes its top K boxes from holds the boxes of
\* get_boxes_info in descending order of area, boxes of equal area in
\* ascending order of y, whatever order the contours came in.
Claim_C20 ==
    LargestTaken =>
        /\ SameBoxes(bx_sorted, bx_info)
        /\ bx_sorted = SortedByAreaThenY(bx_info)
        /\ \A i, j \in DOMAIN bx_sorted :
              i < j =>
                 \/ Area(bx_sorted[i]) > Area(bx_sorted[j])
                 \/ Area(bx_sorted[i]) = Area(bx_sorted[j]) /\ Y(bx_sorted[i]) <= Y(bx_sorted[j])

\* the list is in descending order of area, boxes of equal area in contour order
AreaThenContourOrder ==
    LargestTaken =>
        /\ SameBoxes(bx_sorted, bx_info)
        /\ \A i, j \in DOMAIN bx_sorted :
              i < j =>
                 \/ Area(bx_sorted[i]) > Area(bx_sorted[j])
                 \/ /\ Area(bx_sorted[i]) = Area(bx_sorted[j])
                    /\ BoxPosition(bx_info, bx_sorted[i]) < BoxPosition(bx_info, bx_sorted[j])

\* the boxes taken are the ones the order of area and y would take; refuted
\* by PageEight on two boxes of one area, the lower one first among the contours
TakenAsByAreaThenY ==
    LargestTaken => BoxesOf(bx_top) = BoxesOf(Take(SortedByAreaThenY(bx_info), TopK(bx_page)))

----------------------------------------------------------------------------
(* Claims about calculate_angle *)

AngleReturned == ang_pc = "returned"
\* the value the statement gives a kept angle
Replaced(angle) ==
    IF angle > 30 THEN angle - 90 ELSE IF angle < -30 THEN angle + 90 ELSE angle
ReplacedAngles ==
    LET kept == SelectSeq(ang_lines.segments, Kept)
    IN  [i \in DOMAIN kept |-> Replaced(kept[i])]
\* num / den is the mean of the list
MeanOf(list, out) == out.num * Len(list) = SumSeq(list) * out.den

\* C21: calculate_angle drops the segments at exactly 0 or -90 degrees, turns
\* an angle a above 30 into a - 90 and an angle a below -30 into a + 90, and
\* returns the mean of what remains.
Claim_C21 ==
    (AngleReturned /\ ang_lines # NoLines /\ ReplacedAngles # <<>>) =>
        /\ ~ang_out.raised
        /\ MeanOf(ReplacedAngles, ang_out)

\* the segments at 0 and -90 are dropped and an angle below -30 is raised by 90
BelowFolded ==
    (AngleReturned /\ ang_lines # NoLines /\ \A i \in DOMAIN ang_lines.segments : ang_lines.segments[i] <= 30
       /\ ReplacedAngles # <<>>) =>
        MeanOf(ReplacedAngles, ang_out)

AllDiscarded == ang_lines # NoLines /\ \A i \in DOMAIN ang_lines.segments : ~Kept(ang_lines.segments[i])

\* C22: calculate_angle returns 0 and does not raise when HoughLinesP found
\* no segment, and when every segment found is at 0 or -90 degrees.
Theorem_C22 ==
    (AngleReturned /\ (ang_lines = NoLines \/ AllDiscarded)) =>
        /\ ~ang_out.raised
        /\ ang_out.num = 0 /\ ang_out.den # 0

\* C22 happens: two segments, at 0 and at -90 degrees, and the return is 0
Witness_C22 ==
    /\ AngleReturned
    /\ ang_lines = Lines(<<0, -90>>)
    /\ ang_out = SkewAngle(0, 1)

\* C29: the working directory of the process is left as it was: when the
\* threads of dir_categorize have been joined it is the directory of before
\* the call, under every interleaving of the chdir, rename and restore steps.
Claim_C29 == ThreadsEnded => cat_cwd = "base"

\* while no categorize call has overlapped another, the working directory
\* is the one of before the call whenever no call is running
AloneRestored ==
    (~cat_overlap /\ \A t \in Threads : ~InCategorize(t)) => cat_cwd = "base"

\* a call that reaches its finally puts back the directory it read at line 253
RestoresWhatItRead ==
    [][\A t \in Threads :
          (cat_pc[t] = "restore" /\ cat_pc'[t] = "get") => cat_cwd' = cat_saved[t]]_vars

----------------------------------------------------------------------------
(* Claims about dir_convert *)

Listed(list) == {list[i] : i \in DOMAIN list}

\* C28: dir_convert(parallel=True) terminates whatever files raise in
\* convert_pdf: the main process gets past its wait for the empty task queue
\* and lists each file that failed, every worker having read one 'STOP'.
Claim_C28 ==
    <>(/\ cv_main = "done"
       /\ \A w \in Converters : cv_pc[w] = "exited"
       /\ Listed(cv_list) = cv_raises)

\* without a file that raises dir_convert terminates and every file is converted
TerminatesWithoutRaise ==
    (cv_raises = {}) =>
        <>(/\ cv_main = "done" /\ cv_printed = <<"all">>
           /\ \A w \in Converters : cv_pc[w] = "exited")

\* no file is ever put on the unsuccessful queue
NothingUnsuccessful == cv_unsuccessful = <<>> /\ cv_list = <<>>

\* a worker whose file raises ends without reading a 'STOP', and the main
\* process stays in its wait
StuckAfterRaise ==
    (cv_main = "wait" /\ \E w \in Converters : cv_pc[w] = "dead") => cv_queue # <<>>

============================================================================
